---- MODULE Spec2Model ----
(***************************************************************************)
(* Model of the conversational turn pipeline of                            *)
(* src/src/utils/assistantClient.ts (AssistantClient) and of the turn      *)
(* orchestration of src/src/components/Chat.tsx.                           *)
(*                                                                         *)
(* Times are in milliseconds.  A text is a sequence of one-character      *)
(* strings; a fragment is a text.  An error is named by the message (or,  *)
(* for errors of the provider library, by the name) it carries.           *)
(***************************************************************************)
EXTENDS Integers, Sequences, FiniteSets, TLC

(***************************************************************************)
(* Program constants of AssistantClient.                                   *)
(***************************************************************************)
maxRetries == 3
baseDelay == 2000
timeout == 30000
pollInterval == 1000
chunkSize == 10
defaultK == 5

(***************************************************************************)
(* Bounds of the model.                                                    *)
(***************************************************************************)
\* number of threads createThread may create on one client
MaxThreads == 2
\* every text of length <= MaxShort over Chars is a chunking input
MaxShort == 4
\* the longest chunking input has MaxWords words
MaxWords == 21
\* number of turns submitted to one Chat component
MaxTurns == 2
\* number of fragments a stream of the Chat component yields at most
MaxNodes == 3
MaxEnsure == 2
MaxParts == 3
MaxCorpus == 6
MaxK == 4
MaxFragments == 2

Min(a, b) == IF a < b THEN a ELSE b

RECURSIVE Pow2(_)
Pow2(n) == IF n = 0 THEN 1 ELSE 2 * Pow2(n - 1)

(***************************************************************************)
(* Texts.                                                                  *)
(***************************************************************************)
Chars == {"a", " ", "\n"}

\* the concatenation of a sequence of texts
RECURSIVE Flatten(_)
Flatten(ss) == IF ss = <<>> THEN <<>> ELSE Head(ss) \o Flatten(Tail(ss))

\* String.prototype.split(' '): the pieces between single space characters;
\* the empty text gives one empty piece.
RECURSIVE SplitFrom(_, _, _)
SplitFrom(t, i, cur) ==
    IF i > Len(t) THEN <<cur>>
    ELSE IF t[i] = " " THEN <<cur>> \o SplitFrom(t, i + 1, <<>>)
    ELSE SplitFrom(t, i + 1, Append(cur, t[i]))

Split(t) == SplitFrom(t, 1, <<>>)

\* mutant of Slice: the group loses its last element
SliceOffByOne(ws, i, j) == SubSeq(ws, i + 1, Min(j - 1, Len(ws)))

\* Array.prototype.slice(i, j): elements i .. j-1 (0-based), cut at the end.
Slice(ws, i, j) == SubSeq(ws, i + 1, Min(j, Len(ws)))

\* Array.prototype.join(' ')
RECURSIVE Join(_)
Join(ws) ==
    IF ws = <<>> THEN <<>>
    ELSE IF Len(ws) = 1 THEN ws[1]
    ELSE ws[1] \o <<" ">> \o Join(Tail(ws))

\* mutant of Chunk: no space is added after the group
ChunkNoSpace(ws, i) == Join(Slice(ws, i, i + chunkSize))

\* the fragment yielded for index i: words.slice(i, i + chunkSize).join(' ') + ' '
Chunk(ws, i) == Join(Slice(ws, i, i + chunkSize)) \o <<" ">>

(***************************************************************************)
(* Inputs.                                                                 *)
(***************************************************************************)
RECURSIVE SeqsUpTo(_, _)
SeqsUpTo(S, n) ==
    IF n = 0 THEN {<<>>}
    ELSE LET prev == SeqsUpTo(S, n - 1)
         IN  prev \cup {Append(s, c) : s \in {p \in prev : Len(p) = n - 1}, c \in S}

\* n words "a"; the separator after word k is sep, every other one a space
RECURSIVE LongFrom(_, _, _, _)
LongFrom(j, n, k, sep) ==
    IF j > n THEN <<>>
    ELSE <<"a">> \o (IF j = n THEN <<>> ELSE IF j = k THEN sep ELSE <<" ">>)
                 \o LongFrom(j + 1, n, k, sep)

LongText(n, k, sep) == LongFrom(1, n, k, sep)

Separators == {<<" ">>, <<"\n">>, <<" ", " ">>}

ChunkInputs ==
    SeqsUpTo(Chars, MaxShort)
    \cup {LongText(n, k, sep) : n \in 1..MaxWords, k \in 1..MaxWords,
                                sep \in Separators}

\* final assistant texts the provider may return in the client specification
Texts == {<<>>, <<"a">>, LongText(chunkSize + 1, 1, <<" ">>)}

(***************************************************************************)
(* Errors.                                                                 *)
(***************************************************************************)
\* errors a provider call raises when its signal is aborted: the fetch
\* layer's AbortError (name 'AbortError') or the library's own abort error
\* (another name)
AbortErrors == {"AbortError", "APIUserAbortError"}
\* a provider call failing for another reason
ProviderErrors == {"APIError"}
CancellationErrors == AbortErrors \cup {"Request cancelled"}

\* the statuses of the switch of waitForRunCompletion, and one it does not name
RunStatuses == {"queued", "in_progress", "completed", "failed", "cancelled",
                "expired", "requires_action", "cancelling"}

\* provider latencies: immediate, one poll interval, longer than the deadline
Latencies == {0, pollInterval, timeout + pollInterval}

ElapsedCap == timeout + pollInterval

VARIABLES
    thread,          \* AssistantClient.thread: 0 is null, else the thread id
    retryCount,      \* AssistantClient.retryCount
    pc,              \* position of the sendTurn call in flight
    aborted,         \* signal.aborted of the call's AbortSignal
    elapsed,         \* Date.now() - startTime in waitForRunCompletion
    text,            \* messageContent.text.value
    words,           \* words
    idx,             \* i of the chunk loop
    fragments,       \* fragments the call has yielded, in order
    result,          \* "none" in flight, "ok" ended normally, else the error raised
    attempts,        \* invocations of streamMessage in this call (1 + recursions)
    waits,           \* delays of the backoff waits of this call, in order
    lastErr,         \* error caught by the latest catch block of this call
    rc0,             \* retryCount when the call started
    lastOk,          \* the innermost invocation ended its chunk loop normally
    fails,           \* attempts of this call that ended in the catch block
    pollLate,        \* a poll loop of this call ended more than timeout ms after its start
    sawCancelErr,    \* an attempt of this call failed with a cancellation error
    sawAbort,        \* the poll loop has observed signal.aborted
    cancelInPoll,    \* abort() came between run creation and a terminal status
    statusAfterSaw,  \* a run-status fetch was issued after sawAbort
    listAfterCancel, \* a message fetch was issued after cancelInPoll
    run,             \* run.id of the run this attempt created, 0 before runs.create returns
    polled,          \* runId of the latest runs.retrieve of this attempt, 0 if none
    lastStatus,      \* runStatus.status of the latest answer of this attempt, or "none"
    lastList,        \* what messages.list gave this attempt, or "none"
    callLog,         \* provider calls issued by this call: <<call, thread id>>
    thread0,         \* AssistantClient.thread when the call started
    createLog,       \* the latest createThread: its outcome, and thread before it
    content,         \* content, the text streamMessage was called with
    appendLog,       \* the contents of the messages.create calls of this call, in order
    consumerTexts    \* the texts the consumer calls streamMessage with

chunkVars == <<text, words, idx, fragments>>
catchVars == <<pc, result, retryCount, waits, lastErr, sawCancelErr, elapsed, fails>>
pollObs == <<sawAbort, statusAfterSaw, pollLate>>
attemptObs == <<run, polled, lastStatus, lastList>>
callObs == <<callLog, thread0>>
sendObs == <<content, appendLog, consumerTexts>>
clientVars == <<thread, aborted, attempts, rc0, lastOk, cancelInPoll, listAfterCancel,
                pollObs, catchVars, chunkVars, attemptObs, callObs, createLog, sendObs>>

VARIABLES
    messages,            \* Chat: messages
    input,               \* Chat: input
    isLoading,           \* Chat: isLoading
    error,               \* Chat: error ("null" or the message)
    abortControllerRef,  \* Chat: abortControllerRef.current, 0 is null, else the turn
    abortedSignals,      \* turns whose AbortController was aborted
    initPhase,           \* position of initializeClients
    turns,               \* the invocations of handleSubmit
    regenerated          \* the invocations of regenerateResponse past its guards

orchVars == <<messages, input, isLoading, error, abortControllerRef, abortedSignals,
              initPhase, turns, regenerated>>

VARIABLES
    nodeEmbeddings,  \* GraphRAGClient.nodeEmbeddings, as Object.entries lists it
    initialized,     \* GraphRAGClient.initialized
    nodeNames,       \* GraphRAGClient.nodeNames
    embeddingsAsset, \* /data/node_embeddings.json as served: its entries in key order
    namesAsset,      \* /data/node_names.txt as served: its non-empty lines
    ensureCalls,     \* calls of ensureInitialized so far
    lastFetched,     \* the files the latest ensureInitialized fetched
    nodeArg,         \* the name and similarity a node is enriched from
    nodeDetails,     \* what formatNodeDetails returned for it (at most one)
    kgPc,            \* where queryKnowledgeGraph is
    relevantNodes,   \* queryKnowledgeGraph: relevantNodes
    kgResult,        \* what queryKnowledgeGraph returned (at most one)
    kgError,         \* what queryKnowledgeGraph threw
    providerLog,     \* the calls of the OpenAI client, in order
    queried,         \* queryFaissIndex has been called
    queryEmbedding,  \* queryEmbedding of the latest queryFaissIndex
    kArg,            \* k of the latest queryFaissIndex
    similarNodes     \* what the latest queryFaissIndex returned

loadVars == <<nodeEmbeddings, nodeNames, initialized, ensureCalls, lastFetched>>
assetVars == <<embeddingsAsset, namesAsset>>
enrichVars == <<nodeArg, nodeDetails>>
kgVars == <<kgPc, relevantNodes, kgResult, kgError, providerLog>>
ragVars == <<loadVars, assetVars, enrichVars, kgVars, queried, queryEmbedding, kArg, similarNodes>>

vars == <<clientVars, orchVars, ragVars>>

\* texts the user may type
Questions == {"q1", "q2"}

\* a turn no handleSubmit has used yet
FreeTurn == [st |-> "free", sp |-> "-", retried |-> FALSE, left |-> 0, kgp |-> "none",
             q |-> "", ended |-> "no"]

\* the Chat component when it mounts: initializeClients has created the
\* AssistantClient and awaits initialize()
OrchInit ==
    /\ messages = <<>>
    /\ input = ""
    /\ isLoading = FALSE
    /\ error = "null"
    /\ abortControllerRef = 0
    /\ abortedSignals = {}
    /\ initPhase = "initialize"
    /\ turns = [k \in 1..MaxTurns |-> FreeTurn]
    /\ regenerated = <<>>

(***************************************************************************)
(* Init: the client after construction.                                    *)
(***************************************************************************)
ClientFresh ==
    /\ thread = 0
    /\ retryCount = 0
    /\ pc = "idle"
    /\ aborted = FALSE
    /\ elapsed = 0
    /\ text = <<>>
    /\ words = <<>>
    /\ idx = 0
    /\ fragments = <<>>
    /\ result = "none"
    /\ attempts = 0
    /\ waits = <<>>
    /\ lastErr = "none"
    /\ rc0 = 0
    /\ lastOk = FALSE
    /\ fails = 0
    /\ pollLate = FALSE
    /\ sawCancelErr = FALSE
    /\ sawAbort = FALSE
    /\ cancelInPoll = FALSE
    /\ statusAfterSaw = FALSE
    /\ listAfterCancel = FALSE
    /\ run = 0
    /\ polled = 0
    /\ lastStatus = "none"
    /\ lastList = "none"
    /\ callLog = {}
    /\ thread0 = 0
    /\ createLog = [outcome |-> "none", before |-> 0]
    /\ content = ""
    /\ appendLog = <<>>

\* the client after construction, with a consumer that sends one text
ClientInit ==
    /\ ClientFresh
    /\ consumerTexts = {"q1"}

\* the GraphRAGClient after construction
RagFresh ==
    /\ nodeEmbeddings = <<>>
    /\ nodeNames = <<>>
    /\ initialized = FALSE
    /\ ensureCalls = 0
    /\ lastFetched = {}
    /\ queried = FALSE
    /\ queryEmbedding = <<>>
    /\ kArg = 0
    /\ similarNodes = <<>>
    /\ nodeDetails = <<>>
    /\ kgPc = "idle"
    /\ relevantNodes = <<>>
    /\ kgResult = <<>>
    /\ kgError = ""
    /\ providerLog = <<>>

\* an empty corpus is deployed
NoCorpus ==
    /\ embeddingsAsset = <<>>
    /\ namesAsset = <<>>

\* no node is given to enrich
NoNode == nodeArg = [name |-> <<>>, similarity |-> [nan |-> FALSE, dot |-> 0, na |-> 0, nb |-> 0]]

\* the GraphRAGClient after construction, with an empty corpus deployed
RagInit ==
    /\ RagFresh
    /\ NoCorpus
    /\ NoNode

Init == ClientInit /\ OrchInit /\ RagInit

(***************************************************************************)
(* AssistantClient.                                                        *)
(***************************************************************************)
\* createThread: the provider call succeeds (the new thread is stored) or
\* fails (the stored handle is left alone)
createThread ==
    /\ pc \in {"idle", "done"}
    /\ \/ /\ thread < MaxThreads
          /\ thread' = thread + 1
          /\ createLog' = [outcome |-> "created", before |-> thread]
       \/ /\ UNCHANGED thread
          /\ createLog' = [outcome |-> "failed", before |-> thread]
    /\ UNCHANGED <<aborted, attempts, rc0, lastOk, cancelInPoll, listAfterCancel,
                   pollObs, catchVars, chunkVars, attemptObs, callObs, sendObs>>

\* mutant of ThreadId: every provider call is given a thread of its own
ThreadIdFresh == thread + Cardinality(callLog) + 1

\* this.thread.id, as a provider call is given it
ThreadId == thread

\* a provider call is issued on the thread of the client
Issue(call) == callLog' = callLog \cup {<<call, ThreadId>>}

\* mutant of ThreadInitialized: the check of line 84 left out
ThreadInitializedAlways(t) == TRUE

\* the thread check of streamMessage: this.thread is not null
ThreadInitialized(t) == t # 0

\* exponentialBackoff: the delay it waits
exponentialBackoffDelay(rc) == baseDelay * Pow2(rc)

\* mutant of IsAbortError: a run that requires action is not retried either
IsAbortErrorOrRequiresAction(e) == e \in {"AbortError", "Run requires action"}

\* error.name === 'AbortError'
IsAbortError(e) == e = "AbortError"

\* mutant of RetryAllowed: one retry too many
RetryAllowedOffByOne(rc) == rc <= maxRetries

\* this.retryCount < this.maxRetries
RetryAllowed(rc) == rc < maxRetries

\* the error the catch block raises when no retry is left
ExhaustedError(e) == e

\* The catch block of streamMessage, entered with error e: it raises the
\* cancellation error, or starts the backoff wait of a retry, or resets the
\* counter and raises.  An error raised here leaves every enclosing
\* invocation too, since each of them is suspended inside its own catch block.
Catch(e) ==
    /\ lastErr' = e
    /\ fails' = fails + 1
    /\ sawCancelErr' = (sawCancelErr \/ e \in CancellationErrors)
    /\ elapsed' = 0
    /\ IF IsAbortError(e)
       THEN /\ pc' = "done"
            /\ result' = "Request cancelled"
            /\ UNCHANGED <<retryCount, waits>>
       ELSE IF RetryAllowed(retryCount)
       THEN /\ pc' = "backoff"
            /\ waits' = Append(waits, exponentialBackoffDelay(retryCount))
            /\ UNCHANGED <<retryCount, result>>
       ELSE /\ retryCount' = 0
            /\ pc' = "done"
            /\ result' = ExhaustedError(e)
            /\ UNCHANGED waits

\* streamMessage called by the consumer with a fresh signal: the thread check,
\* then messages.create is issued
StartCall ==
    /\ pc \in {"idle", "done"}
    /\ aborted' = FALSE
    /\ attempts' = 1
    /\ rc0' = retryCount
    /\ lastOk' = FALSE
    /\ cancelInPoll' = FALSE
    /\ listAfterCancel' = FALSE
    /\ sawAbort' = FALSE
    /\ statusAfterSaw' = FALSE
    /\ pollLate' = FALSE
    /\ fails' = 0
    /\ waits' = <<>>
    /\ lastErr' = "none"
    /\ sawCancelErr' = FALSE
    /\ elapsed' = 0
    /\ text' = <<>>
    /\ words' = <<>>
    /\ idx' = 0
    /\ fragments' = <<>>
    /\ run' = 0
    /\ polled' = 0
    /\ lastStatus' = "none"
    /\ lastList' = "none"
    /\ thread0' = thread
    /\ content' \in consumerTexts
    /\ IF ThreadInitialized(thread)
       THEN /\ pc' = "append"
            /\ result' = "none"
            /\ callLog' = {<<"messages.create", ThreadId>>}
            /\ appendLog' = <<content'>>
       ELSE /\ pc' = "done"
            /\ result' = "Thread not initialized"
            /\ callLog' = {}
            /\ appendLog' = <<>>
    /\ UNCHANGED <<thread, retryCount, createLog, consumerTexts>>

\* abortController.abort() while the call is in flight
Cancel ==
    /\ pc \notin {"idle", "done"}
    /\ ~aborted
    /\ aborted' = TRUE
    /\ cancelInPoll' = (cancelInPoll \/ pc \in {"retrieve", "sleep"})
    /\ UNCHANGED <<thread, attempts, rc0, lastOk, listAfterCancel, pollObs,
                   catchVars, chunkVars, attemptObs, callObs, createLog, sendObs>>

\* messages.create(thread, {role: 'user', content}, {signal}) returns or fails;
\* on success runs.create is issued
AppendReturn ==
    /\ pc = "append"
    /\ IF aborted
       THEN (\E e \in AbortErrors : Catch(e)) /\ UNCHANGED callLog
       ELSE \/ /\ pc' = "createRun"
               /\ Issue("runs.create")
               /\ UNCHANGED <<result, retryCount, waits, lastErr, sawCancelErr, elapsed,
                              fails>>
            \/ (\E e \in ProviderErrors : Catch(e)) /\ UNCHANGED callLog
    /\ UNCHANGED <<thread, aborted, attempts, rc0, lastOk, cancelInPoll,
                   listAfterCancel, pollObs, chunkVars, attemptObs, thread0, createLog, sendObs>>

\* mutant of TimedOut: the timeout taken for seconds
TimedOutSeconds(el) == el > timeout * 1000

\* the timeout test of waitForRunCompletion
TimedOut(el) == el > timeout

\* mutant of PollIteration: the timeout test before the signal test
PollIterationTimeoutFirst(el, runId) ==
    IF TimedOut(el)
    THEN /\ pollLate' = (pollLate \/ el > timeout)
         /\ UNCHANGED <<sawAbort, statusAfterSaw, polled, callLog>>
         /\ Catch("Request timed out")
    ELSE IF aborted
    THEN /\ sawAbort' = TRUE
         /\ pollLate' = (pollLate \/ el > timeout)
         /\ UNCHANGED <<statusAfterSaw, polled, callLog>>
         /\ Catch("Request cancelled")
    ELSE /\ pc' = "retrieve"
         /\ elapsed' = el
         /\ statusAfterSaw' = (statusAfterSaw \/ sawAbort)
         /\ polled' = runId
         /\ Issue("runs.retrieve")
         /\ UNCHANGED <<sawAbort, pollLate, result, retryCount, waits, lastErr,
                        sawCancelErr, fails>>

\* The top of one iteration of the loop of waitForRunCompletion(threadId,
\* runId, signal), el milliseconds after startTime: the signal test, the
\* timeout test, then runs.retrieve(threadId, runId) is issued.
PollIteration(el, runId) ==
    IF aborted
    THEN /\ sawAbort' = TRUE
         /\ pollLate' = (pollLate \/ el > timeout)
         /\ UNCHANGED <<statusAfterSaw, polled, callLog>>
         /\ Catch("Request cancelled")
    ELSE IF TimedOut(el)
    THEN /\ pollLate' = (pollLate \/ el > timeout)
         /\ UNCHANGED <<sawAbort, statusAfterSaw, polled, callLog>>
         /\ Catch("Request timed out")
    ELSE /\ pc' = "retrieve"
         /\ elapsed' = el
         /\ statusAfterSaw' = (statusAfterSaw \/ sawAbort)
         /\ polled' = runId
         /\ Issue("runs.retrieve")
         /\ UNCHANGED <<sawAbort, pollLate, result, retryCount, waits, lastErr,
                        sawCancelErr, fails>>

\* run.id of the run that attempt n of a call creates
RunId(n) == n

\* runs.create(thread, {assistant_id}, {signal}) returns or fails; on success
\* waitForRunCompletion starts (startTime = Date.now()) with its first iteration
CreateRunReturn ==
    /\ pc = "createRun"
    /\ IF aborted
       THEN /\ \E e \in AbortErrors : Catch(e)
            /\ UNCHANGED <<pollObs, run, polled, callLog>>
       ELSE \/ /\ run' = RunId(attempts)
               /\ PollIteration(0, RunId(attempts))
            \/ /\ \E e \in ProviderErrors : Catch(e)
               /\ UNCHANGED <<pollObs, run, polled, callLog>>
    /\ UNCHANGED <<thread, aborted, attempts, rc0, lastOk, cancelInPoll,
                   listAfterCancel, chunkVars, lastStatus, lastList, thread0,
                   createLog, sendObs>>

\* mutant of StatusError: one reason for every status
StatusErrorGeneric(s) == "Run failed"

\* the error of a terminal status other than completed
StatusError(s) ==
    CASE s = "failed" -> "Run failed"
      [] s = "cancelled" -> "Run was cancelled"
      [] s = "expired" -> "Run expired"
      [] s = "requires_action" -> "Run requires action"

\* runs.retrieve(threadId, runId) returns after lat milliseconds or fails: the
\* switch on runStatus.status; on completed, the loop returns and
\* messages.list is issued
RetrieveReturn ==
    /\ pc = "retrieve"
    /\ \E lat \in Latencies :
         \/ /\ \E e \in ProviderErrors : Catch(e)
            /\ pollLate' = (pollLate \/ elapsed + lat > timeout)
            /\ UNCHANGED <<listAfterCancel, lastStatus, callLog>>
         \/ \E s \in RunStatuses :
              /\ lastStatus' = s
              /\ CASE s = "completed" ->
                     /\ pc' = "list"
                     /\ elapsed' = 0
                     /\ pollLate' = (pollLate \/ elapsed + lat > timeout)
                     /\ listAfterCancel' = (listAfterCancel \/ cancelInPoll)
                     /\ Issue("messages.list")
                     /\ UNCHANGED <<result, retryCount, waits, lastErr, sawCancelErr,
                                    fails>>
                [] s \in {"failed", "cancelled", "expired", "requires_action"} ->
                     /\ Catch(StatusError(s))
                     /\ pollLate' = (pollLate \/ elapsed + lat > timeout)
                     /\ UNCHANGED <<listAfterCancel, callLog>>
                [] OTHER ->
                     /\ pc' = "sleep"
                     /\ elapsed' = Min(elapsed + lat, ElapsedCap)
                     /\ UNCHANGED <<listAfterCancel, pollLate, result, retryCount, waits,
                                    lastErr, sawCancelErr, fails, callLog>>
    /\ UNCHANGED <<thread, aborted, attempts, rc0, lastOk, cancelInPoll, sawAbort,
                   statusAfterSaw, chunkVars, run, polled, lastList, thread0,
                   createLog, sendObs>>

\* the setTimeout(resolve, 1000) of the default branch fires; next iteration
SleepDone ==
    /\ pc = "sleep"
    /\ PollIteration(Min(elapsed + pollInterval, ElapsedCap), run)
    /\ UNCHANGED <<thread, aborted, attempts, rc0, lastOk, cancelInPoll,
                   listAfterCancel, chunkVars, run, lastStatus, lastList, thread0,
                   createLog, sendObs>>

\* lines 122-129 up to the first yield: split the text, yield the first chunk
BeginChunks(t) ==
    /\ text' = t
    /\ words' = Split(t)
    /\ idx' = 0
    /\ fragments' = Append(fragments, Chunk(Split(t), 0))
    /\ pc' = "yielded"

\* what messages.list may answer: no message, a message of another role, an
\* assistant message without content, with a first content part that is not
\* text, with a text
ListOutcomes == {"absent", "notAssistant", "noContent", "nonText", "text"}

\* mutant of ListError: the role of the last message is not looked at
ListErrorAnyRole(o) ==
    CASE o = "absent" -> "No assistant response found"
      [] o = "notAssistant" -> "none"
      [] o = "noContent" -> "TypeError"
      [] o = "nonText" -> "Unexpected message content type"
      [] o = "text" -> "none"

\* the checks of lines 112-120 on the last message: the error they raise, or
\* "none" (reading .type of a missing content part raises a TypeError)
ListError(o) ==
    CASE o \in {"absent", "notAssistant"} -> "No assistant response found"
      [] o = "noContent" -> "TypeError"
      [] o = "nonText" -> "Unexpected message content type"
      [] o = "text" -> "none"

\* messages.list(thread, {limit: 1, order: 'desc'}) returns or fails: the
\* checks of the last message, then the chunk loop starts
ListReturn ==
    /\ pc = "list"
    /\ \/ /\ \E e \in ProviderErrors : Catch(e)
          /\ lastList' = "failed"
          /\ UNCHANGED chunkVars
       \/ \E o \in ListOutcomes :
            /\ lastList' = o
            /\ IF ListError(o) # "none"
               THEN /\ Catch(ListError(o))
                    /\ UNCHANGED chunkVars
               ELSE /\ \E t \in Texts : BeginChunks(t)
                    /\ UNCHANGED <<result, retryCount, waits, lastErr, sawCancelErr,
                                   elapsed, fails>>
    /\ UNCHANGED <<thread, aborted, attempts, rc0, lastOk, cancelInPoll,
                   listAfterCancel, pollObs, run, polled, lastStatus, callObs,
                   createLog, sendObs>>

\* the consumer asks for the next fragment: the generator resumes after its
\* yield and starts the pacing timer
Resume ==
    /\ pc = "yielded"
    /\ pc' = "pace"
    /\ UNCHANGED <<thread, aborted, attempts, rc0, lastOk, cancelInPoll,
                   listAfterCancel, pollObs, chunkVars, result, retryCount, waits,
                   lastErr, sawCancelErr, elapsed, fails, attemptObs, callObs,
                   createLog, sendObs>>

\* how an invocation whose chunk loop has ended leaves the call: the outermost
\* one returns; a recursive one returns into the catch block of its caller,
\* which falls through to its final throw
EndOfStream(n) == IF n = 1 THEN "ok" ELSE "An unexpected error occurred"

\* mutant of PaceDone: the loop test is i <= words.length
PaceDoneInclusive ==
    /\ pc = "pace"
    /\ idx' = idx + chunkSize
    /\ IF idx + chunkSize <= Len(words)
       THEN /\ fragments' = Append(fragments, Chunk(words, idx + chunkSize))
            /\ pc' = "yielded"
            /\ UNCHANGED <<result, lastOk>>
       ELSE /\ pc' = "done"
            /\ result' = EndOfStream(attempts)
            /\ lastOk' = TRUE
            /\ UNCHANGED fragments
    /\ UNCHANGED <<thread, aborted, attempts, rc0, cancelInPoll, listAfterCancel,
                   pollObs, text, words, retryCount, waits, lastErr, sawCancelErr,
                   elapsed, fails, attemptObs, callObs, createLog, sendObs>>

\* the pacing timer fires: i += chunkSize, then the next yield or the end of
\* the loop
PaceDone ==
    /\ pc = "pace"
    /\ idx' = idx + chunkSize
    /\ IF idx + chunkSize < Len(words)
       THEN /\ fragments' = Append(fragments, Chunk(words, idx + chunkSize))
            /\ pc' = "yielded"
            /\ UNCHANGED <<result, lastOk>>
       ELSE /\ pc' = "done"
            /\ result' = EndOfStream(attempts)
            /\ lastOk' = TRUE
            /\ UNCHANGED fragments
    /\ UNCHANGED <<thread, aborted, attempts, rc0, cancelInPoll, listAfterCancel,
                   pollObs, text, words, retryCount, waits, lastErr, sawCancelErr,
                   elapsed, fails, attemptObs, callObs, createLog, sendObs>>

\* mutant of RetryContent: the retry sends an empty text
RetryContentEmpty(c) == ""

\* the content that the recursive streamMessage(content, signal) is given
RetryContent(c) == c

\* the backoff timer fires: retryCount++, then the recursive streamMessage
\* passes its thread check and issues messages.create
Backoff ==
    /\ pc = "backoff"
    /\ retryCount' = retryCount + 1
    /\ attempts' = attempts + 1
    /\ pc' = "append"
    /\ run' = 0
    /\ polled' = 0
    /\ lastStatus' = "none"
    /\ lastList' = "none"
    /\ Issue("messages.create")
    /\ content' = RetryContent(content)
    /\ appendLog' = Append(appendLog, RetryContent(content))
    /\ UNCHANGED <<thread, aborted, rc0, lastOk, cancelInPoll, listAfterCancel,
                   pollObs, chunkVars, result, waits, lastErr, sawCancelErr, elapsed,
                   fails, thread0, createLog, consumerTexts>>

\* the steps of a call in flight
CallStep ==
    \/ AppendReturn
    \/ CreateRunReturn
    \/ RetrieveReturn
    \/ SleepDone
    \/ ListReturn
    \/ Resume
    \/ PaceDone
    \/ Backoff

Next ==
    \/ createThread /\ UNCHANGED <<orchVars, ragVars>>
    \/ StartCall /\ UNCHANGED <<orchVars, ragVars>>
    \/ Cancel /\ UNCHANGED <<orchVars, ragVars>>
    \/ AppendReturn /\ UNCHANGED <<orchVars, ragVars>>
    \/ CreateRunReturn /\ UNCHANGED <<orchVars, ragVars>>
    \/ RetrieveReturn /\ UNCHANGED <<orchVars, ragVars>>
    \/ SleepDone /\ UNCHANGED <<orchVars, ragVars>>
    \/ ListReturn /\ UNCHANGED <<orchVars, ragVars>>
    \/ Resume /\ UNCHANGED <<orchVars, ragVars>>
    \/ PaceDone /\ UNCHANGED <<orchVars, ragVars>>
    \/ Backoff /\ UNCHANGED <<orchVars, ragVars>>

Spec == Init /\ [][Next]_vars

\* the client with a consumer that sends any of the texts
SendInit ==
    /\ ClientFresh
    /\ consumerTexts = Questions
    /\ OrchInit
    /\ RagInit

SendSpec == SendInit /\ [][Next]_vars

\* every step of a call in flight is eventually taken: provider calls return
\* or fail, timers fire, the consumer keeps asking for fragments
FairSpec == Spec /\ WF_vars(CallStep /\ UNCHANGED <<orchVars, ragVars>>)

(***************************************************************************)
(* GraphRAGClient: the load of the index.  The two data files are static   *)
(* assets: every fetch that succeeds gives the same content.               *)
(***************************************************************************)
\* loadData: the embeddings are stored as soon as they are read;
\* nodeNames and initialized are set only when the node names have been
\* read too.  A fetch may fail.
loadData ==
    \/ /\ lastFetched' = {"node_embeddings.json"}
       /\ UNCHANGED <<nodeEmbeddings, nodeNames, initialized>>
    \/ /\ lastFetched' = {"node_embeddings.json", "node_names.txt"}
       /\ nodeEmbeddings' = embeddingsAsset
       /\ UNCHANGED <<nodeNames, initialized>>
    \/ /\ lastFetched' = {"node_embeddings.json", "node_names.txt"}
       /\ nodeEmbeddings' = embeddingsAsset
       /\ nodeNames' = namesAsset
       /\ initialized' = TRUE

\* mutant of NeedsLoad: the flag is not looked at
NeedsLoadAlways(init) == TRUE

\* if (!this.initialized)
NeedsLoad(init) == ~init

\* ensureInitialized
ensureInitialized ==
    /\ ensureCalls < MaxEnsure
    /\ ensureCalls' = ensureCalls + 1
    /\ IF NeedsLoad(initialized)
       THEN loadData
       ELSE /\ lastFetched' = {}
            /\ UNCHANGED <<nodeEmbeddings, nodeNames, initialized>>
    /\ UNCHANGED <<assetVars, enrichVars, kgVars, queried, queryEmbedding, kArg, similarNodes>>

(***************************************************************************)
(* Chat (the turn orchestrator).  Every invocation of handleSubmit is a    *)
(* turn k; its stream is a streamMessage call on the one AssistantClient   *)
(* of the component, so all turns share retryCount.  The stream of a turn  *)
(* is followed at the provider calls and timers of streamMessage; the      *)
(* clock of its poll loop is left open (a timeout may be found at any      *)
(* iteration after the first), and its text is reduced to the number of    *)
(* fragments.  Of an error message the component keeps whether it is       *)
(* 'Request cancelled'.  Handlers run only while the component renders     *)
(* them: with error set, Chat renders the error panel alone.               *)
(***************************************************************************)
UserId(k) == 2 * k - 1
BotId(k) == 2 * k

\* Chat returns the error panel instead of the form and the message list
Rendered == error = "null"

\* the rest of the client is not used by the component model
clientRest == <<aborted, attempts, rc0, lastOk, cancelInPoll, listAfterCancel, pollObs,
                pc, result, waits, lastErr, sawCancelErr, elapsed, fails, chunkVars,
                attemptObs, callObs, createLog, sendObs>>

\* mutant of MarkFailed: the failed message carries a knowledge graph
MarkFailedAnnotated(ms, id) ==
    [i \in 1..Len(ms) |->
        IF ms[i].id = id
        THEN [ms[i] EXCEPT !.status = "failed", !.content = "Failed to generate response",
                           !.kg = TRUE]
        ELSE ms[i]]

\* prev.map(msg => msg.id === id ? { ...msg, status: 'failed', content: ... } : msg)
MarkFailed(ms, id) ==
    [i \in 1..Len(ms) |->
        IF ms[i].id = id
        THEN [ms[i] EXCEPT !.status = "failed", !.content = "Failed to generate response"]
        ELSE ms[i]]

\* prev.map(msg => msg.id === id ? { ...msg, status: 'delivered', knowledgeGraph } : msg)
MarkDelivered(ms, id) ==
    [i \in 1..Len(ms) |->
        IF ms[i].id = id THEN [ms[i] EXCEPT !.status = "delivered", !.kg = TRUE]
        ELSE ms[i]]

\* mutant of AppendContent: the chunk goes to every bot message
AppendContentAll(ms, id) ==
    [i \in 1..Len(ms) |->
        IF ms[i].isBot THEN [ms[i] EXCEPT !.content = @ + 1] ELSE ms[i]]

\* prev.map(msg => msg.id === id ? { ...msg, content: msg.content + chunk } : msg)
AppendContent(ms, id) ==
    [i \in 1..Len(ms) |->
        IF ms[i].id = id THEN [ms[i] EXCEPT !.content = @ + 1] ELSE ms[i]]

\* mutant of RemoveMessage: the list is left as it is
RemoveMessageNone(ms, id) == ms

\* prev.filter(msg => msg.id !== id)
RemoveMessage(ms, id) == SelectSeq(ms, LAMBDA m : m.id # id)

\* initializeClients: initialize(), createThread(), then the GraphRAGClient is
\* created and ensureInitialized() awaited (it loads the index, or throws);
\* any failure sets the error
InitializeStep ==
    /\ initPhase \in {"initialize", "createThread", "ensureInitialized"}
    /\ IF initPhase = "ensureInitialized"
       THEN /\ ensureInitialized
            /\ IF initialized'
               THEN /\ initPhase' = "ready"
                    /\ UNCHANGED error
               ELSE /\ initPhase' = "failed"
                    /\ error' = "Failed to initialize chat"
            /\ UNCHANGED thread
       ELSE /\ \/ /\ initPhase' = CASE initPhase = "initialize" -> "createThread"
                                    [] initPhase = "createThread" -> "ensureInitialized"
                  /\ thread' = IF initPhase = "createThread" THEN 1 ELSE thread
                  /\ UNCHANGED error
               \/ /\ initPhase' = "failed"
                  /\ error' = "Failed to initialize chat"
                  /\ UNCHANGED thread
            /\ UNCHANGED ragVars
    /\ UNCHANGED <<messages, input, isLoading, abortControllerRef, abortedSignals,
                   turns, regenerated, retryCount, clientRest>>

\* onChange of the textarea (disabled while isLoading)
TypeInput ==
    /\ Rendered
    /\ ~isLoading
    /\ \E t \in Questions \cup {""} : t # input /\ input' = t
    /\ UNCHANGED <<messages, isLoading, error, abortControllerRef, abortedSignals,
                   initPhase, turns, regenerated, thread, retryCount, clientRest, ragVars>>

\* the guard of handleSubmit (line 111), on the input and isLoading of the
\* render the handler belongs to
SubmitGuard ==
    ~(input = "" \/ isLoading \/ initPhase \notin {"ensureInitialized", "ready"})

\* handleSubmit past its guard, up to its first await, on the message list
\* ms: the two new messages, the new AbortController, the user message
\* delivered, queryKnowledgeGraph started, streamMessage started (it issues
\* messages.create); the text is the input of the handler's render
Submit(ms) ==
    /\ \E k \in 1..MaxTurns :
         /\ turns[k].st = "free"
         /\ \A j \in 1..(k - 1) : turns[j].st # "free"
         /\ messages' = ms \o
                <<[id |-> UserId(k), isBot |-> FALSE, content |-> input,
                   status |-> "delivered", kg |-> FALSE],
                  [id |-> BotId(k), isBot |-> TRUE, content |-> 0,
                   status |-> "typing", kg |-> FALSE]>>
         /\ abortControllerRef' = k
         /\ turns' = [turns EXCEPT ![k] = [st |-> "stream", sp |-> "append",
                                           retried |-> FALSE, left |-> 0,
                                           kgp |-> "pending", q |-> input,
                                           ended |-> "no"]]
    /\ input' = ""
    /\ isLoading' = TRUE
    /\ error' = "null"

\* handleSubmit, from the form
handleSubmit ==
    /\ Rendered
    /\ SubmitGuard
    /\ Submit(messages)
    /\ UNCHANGED <<abortedSignals, initPhase, regenerated, thread, retryCount,
                   clientRest, ragVars>>

\* regenerateResponse(messageId), from the 'Try again' button of a failed
\* message: the list is cut before the message and input is set to the text
\* of the user message before it; handleSubmit is then called as the render
\* of the click defined it, so its guard and its text are that render's
\* input and isLoading, and its setInput('') comes last
regenerateResponse ==
    /\ \E i \in 1..Len(messages) :
         /\ messages[i].status = "failed"
         /\ i > 1
         /\ ~messages[i - 1].isBot
         /\ regenerated' = Append(regenerated, [id |-> messages[i].id,
                                                text |-> messages[i - 1].content])
         /\ IF SubmitGuard
            THEN Submit(SubSeq(messages, 1, i - 1))
            ELSE /\ messages' = SubSeq(messages, 1, i - 1)
                 /\ input' = messages[i - 1].content
                 /\ UNCHANGED <<isLoading, error, abortControllerRef, turns>>
    /\ UNCHANGED <<abortedSignals, initPhase, thread, retryCount, clientRest, ragVars>>

\* mutant of cancelRequest: the retrieval of the turn is aborted too
cancelRequestAbortsRetrieval ==
    /\ Rendered
    /\ isLoading
    /\ abortedSignals' = IF abortControllerRef = 0 THEN abortedSignals
                         ELSE abortedSignals \cup {abortControllerRef}
    /\ isLoading' = FALSE
    /\ turns' = [k \in 1..MaxTurns |->
                    IF k = abortControllerRef /\ turns[k].kgp = "pending"
                    THEN [turns[k] EXCEPT !.kgp = "fail"]
                    ELSE turns[k]]
    /\ UNCHANGED <<messages, input, error, abortControllerRef, initPhase,
                   regenerated, thread, retryCount, clientRest, ragVars>>

\* cancelRequest (the button shown while isLoading)
cancelRequest ==
    /\ Rendered
    /\ isLoading
    /\ abortedSignals' = IF abortControllerRef = 0 THEN abortedSignals
                         ELSE abortedSignals \cup {abortControllerRef}
    /\ isLoading' = FALSE
    /\ UNCHANGED <<messages, input, error, abortControllerRef, initPhase, turns,
                   regenerated, thread, retryCount, clientRest, ragVars>>

\* What handleSubmit tells apart in an error: the message 'Request cancelled'
\* and every other message.
ErrorMessage(e) == IF e = "Request cancelled" THEN e ELSE "Error"

\* the catch and finally blocks of handleSubmit, entered with an error whose
\* message is msg; ts is turns with what the failing step recorded
TurnFailed(k, msg, ts) ==
    /\ turns' = [ts EXCEPT ![k].st = "done", ![k].sp = "-"]
    /\ error' = ErrorMessage(msg)
    /\ messages' =
         IF msg = "Request cancelled"
         THEN RemoveMessage(messages, BotId(k))
         ELSE MarkFailed(messages, BotId(k))
    /\ isLoading' = FALSE
    /\ abortControllerRef' = 0

\* the knowledge graph attached to the bot message, then the finally block
TurnDelivered(k, ts) ==
    /\ turns' = [ts EXCEPT ![k].st = "done", ![k].sp = "-"]
    /\ messages' = MarkDelivered(messages, BotId(k))
    /\ isLoading' = FALSE
    /\ abortControllerRef' = 0
    /\ UNCHANGED error

\* the stream of turn k stays in flight, at position sp
StreamGoto(k, sp) ==
    /\ turns' = [turns EXCEPT ![k].sp = sp]
    /\ UNCHANGED <<retryCount, messages, error, isLoading, abortControllerRef>>

\* the catch block of streamMessage in the stream of turn k
StreamCatch(k, e) ==
    IF IsAbortError(e)
    THEN /\ TurnFailed(k, "Request cancelled",
                       [turns EXCEPT ![k].ended = "Request cancelled"])
         /\ UNCHANGED retryCount
    ELSE IF RetryAllowed(retryCount)
    THEN StreamGoto(k, "backoff")
    ELSE /\ retryCount' = 0
         /\ TurnFailed(k, ExhaustedError(e),
                       [turns EXCEPT ![k].ended = ErrorMessage(ExhaustedError(e))])

Streaming(k, sp) == turns[k].st = "stream" /\ turns[k].sp = sp

StreamAppendReturn(k) ==
    /\ Streaming(k, "append")
    /\ IF k \in abortedSignals
       THEN \E e \in AbortErrors : StreamCatch(k, e)
       ELSE \/ StreamGoto(k, "createRun")
            \/ \E e \in ProviderErrors : StreamCatch(k, e)

StreamCreateRunReturn(k) ==
    /\ Streaming(k, "createRun")
    /\ IF k \in abortedSignals
       THEN \E e \in AbortErrors : StreamCatch(k, e)
       ELSE \/ StreamGoto(k, "retrieve")
            \/ \E e \in ProviderErrors : StreamCatch(k, e)

StreamRetrieveReturn(k) ==
    /\ Streaming(k, "retrieve")
    /\ \/ \E e \in ProviderErrors : StreamCatch(k, e)
       \/ \E s \in RunStatuses :
            CASE s = "completed" -> StreamGoto(k, "list")
              [] s \in {"failed", "cancelled", "expired", "requires_action"} ->
                   StreamCatch(k, StatusError(s))
              [] OTHER -> StreamGoto(k, "sleep")

StreamSleepDone(k) ==
    /\ Streaming(k, "sleep")
    /\ IF k \in abortedSignals
       THEN StreamCatch(k, "Request cancelled")
       ELSE \/ StreamCatch(k, "Request timed out")
            \/ StreamGoto(k, "retrieve")

\* the for await body: the chunk is appended to the bot message of the turn
AppendChunk(k) ==
    messages' = AppendContent(messages, BotId(k))

StreamListReturn(k) ==
    /\ Streaming(k, "list")
    /\ \/ \E e \in ProviderErrors \cup {"No assistant response found",
                                       "Unexpected message content type",
                                       "TypeError"} : StreamCatch(k, e)
       \/ \E n \in 1..MaxFragments :
            /\ turns' = [turns EXCEPT ![k].sp = "pace", ![k].left = n - 1]
            /\ AppendChunk(k)
            /\ UNCHANGED <<retryCount, error, isLoading, abortControllerRef>>

\* the pacing timer of the stream of turn k fires: the next fragment, or the
\* end of the stream; then handleSubmit awaits knowledgeGraphPromise
StreamPaceDone(k) ==
    /\ Streaming(k, "pace")
    /\ IF turns[k].left > 0
       THEN /\ turns' = [turns EXCEPT ![k].left = @ - 1]
            /\ AppendChunk(k)
            /\ UNCHANGED <<retryCount, error, isLoading, abortControllerRef>>
       ELSE /\ UNCHANGED retryCount
            /\ IF EndOfStream(IF turns[k].retried THEN 2 ELSE 1) # "ok"
               THEN TurnFailed(k, EndOfStream(2),
                               [turns EXCEPT ![k].ended = ErrorMessage(EndOfStream(2))])
               ELSE LET ts == [turns EXCEPT ![k].ended = "ok"]
                    IN CASE turns[k].kgp = "ok" -> TurnDelivered(k, ts)
                         [] turns[k].kgp = "fail" -> TurnFailed(k, "APIError", ts)
                         [] OTHER ->
                              /\ turns' = [ts EXCEPT ![k].st = "kg", ![k].sp = "-"]
                              /\ UNCHANGED <<messages, error, isLoading,
                                             abortControllerRef>>

StreamBackoff(k) ==
    /\ Streaming(k, "backoff")
    /\ retryCount' = retryCount + 1
    /\ turns' = [turns EXCEPT ![k].sp = "append", ![k].retried = TRUE]
    /\ UNCHANGED <<messages, error, isLoading, abortControllerRef>>

\* a step of the stream of some turn in flight
StreamStep ==
    \E k \in 1..MaxTurns :
        /\ \/ StreamAppendReturn(k)
           \/ StreamCreateRunReturn(k)
           \/ StreamRetrieveReturn(k)
           \/ StreamSleepDone(k)
           \/ StreamListReturn(k)
           \/ StreamPaceDone(k)
           \/ StreamBackoff(k)
        /\ UNCHANGED <<input, abortedSignals, initPhase, regenerated, thread,
                       clientRest, ragVars>>

\* mutant of AwaitingKnowledgeGraph: the promise is not awaited behind the
\* for await loop but acted on whenever it settles
AwaitingKnowledgeGraphAnytime(k) == turns[k].st \in {"stream", "kg"}

\* handleSubmit of turn k is suspended at `await knowledgeGraphPromise`
AwaitingKnowledgeGraph(k) == turns[k].st = "kg"

\* queryKnowledgeGraph of turn k settles; a handleSubmit waiting for it goes on
KnowledgeGraphSettles ==
    \E k \in 1..MaxTurns :
        /\ turns[k].kgp = "pending"
        /\ \/ IF AwaitingKnowledgeGraph(k)
              THEN /\ TurnDelivered(k, [turns EXCEPT ![k].kgp = "ok"])
                   /\ UNCHANGED retryCount
              ELSE /\ turns' = [turns EXCEPT ![k].kgp = "ok"]
                   /\ UNCHANGED <<retryCount, messages, error, isLoading,
                                  abortControllerRef>>
           \/ IF AwaitingKnowledgeGraph(k)
              THEN /\ TurnFailed(k, "APIError", [turns EXCEPT ![k].kgp = "fail"])
                   /\ UNCHANGED retryCount
              ELSE /\ turns' = [turns EXCEPT ![k].kgp = "fail"]
                   /\ UNCHANGED <<retryCount, messages, error, isLoading,
                                  abortControllerRef>>
        /\ UNCHANGED <<input, abortedSignals, initPhase, regenerated, thread,
                       clientRest, ragVars>>

OrchNext ==
    \/ InitializeStep
    \/ TypeInput
    \/ handleSubmit
    \/ cancelRequest
    \/ StreamStep
    \/ KnowledgeGraphSettles

OrchSpec == Init /\ [][OrchNext]_vars

\* The component with the 'Try again' handler taken on any failed message.
\* As written, Chat shows the error panel in place of the message list
\* whenever a turn has failed, so the button of a failed message is never on
\* screen; this specification leaves that one condition out to follow what
\* the handler does.
RegenNext ==
    \/ OrchNext
    \/ regenerateResponse

RegenSpec == Init /\ [][RegenNext]_vars

\* the streamMessage calls in flight on the client of the component
InFlight == {k \in 1..MaxTurns : turns[k].st = "stream"}

\* C7: the component never has two streamMessage calls in flight on its
\* client.
C7_OneSendTurnInFlight ==
    Cardinality(InFlight) <= 1

(***************************************************************************)
(* The chunk loop alone, on a wide family of final texts: the state after  *)
(* messages.list was issued by the first attempt of a call.                *)
(***************************************************************************)
ChunkInit ==
    /\ thread = 1
    /\ retryCount = 0
    /\ pc = "list"
    /\ aborted = FALSE
    /\ elapsed = 0
    /\ text \in ChunkInputs
    /\ words = <<>>
    /\ idx = 0
    /\ fragments = <<>>
    /\ result = "none"
    /\ attempts = 1
    /\ waits = <<>>
    /\ lastErr = "none"
    /\ rc0 = 0
    /\ lastOk = FALSE
    /\ fails = 0
    /\ pollLate = FALSE
    /\ sawCancelErr = FALSE
    /\ sawAbort = FALSE
    /\ cancelInPoll = FALSE
    /\ statusAfterSaw = FALSE
    /\ listAfterCancel = FALSE
    /\ run = RunId(1)
    /\ polled = RunId(1)
    /\ lastStatus = "completed"
    /\ lastList = "none"
    /\ callLog = {<<c, 1>> : c \in {"messages.create", "runs.create", "runs.retrieve",
                                    "messages.list"}}
    /\ thread0 = 1
    /\ createLog = [outcome |-> "created", before |-> 0]
    /\ content = "q1"
    /\ appendLog = <<"q1">>
    /\ consumerTexts = {"q1"}
    /\ OrchInit
    /\ RagInit

\* messages.list returns an assistant message whose text is `text`
ListText ==
    /\ pc = "list"
    /\ BeginChunks(text)
    /\ lastList' = "text"
    /\ UNCHANGED <<thread, aborted, attempts, rc0, lastOk, cancelInPoll,
                   listAfterCancel, pollObs, result, retryCount, waits, lastErr,
                   sawCancelErr, elapsed, fails, run, polled, lastStatus, callObs,
                   createLog, sendObs>>

ChunkNext ==
    \/ ListText /\ UNCHANGED <<orchVars, ragVars>>
    \/ Resume /\ UNCHANGED <<orchVars, ragVars>>
    \/ PaceDone /\ UNCHANGED <<orchVars, ragVars>>

ChunkSpec == ChunkInit /\ [][ChunkNext]_vars

(***************************************************************************)
(* GraphRAGClient: the similarity index.  nodeEmbeddings is the sequence   *)
(* of the entries of the object, in the order of Object.entries (the order *)
(* of the keys in the file, none of them an integer); an object holds each *)
(* key once.  Embeddings are vectors of small integers, none of them the   *)
(* zero vector.  A cosine similarity is kept as the exact triple of dot    *)
(* product and squared norms, and compared as the real number              *)
(* dot / (sqrt(na) * sqrt(nb)); it is NaN when the second vector is        *)
(* shorter than the first (undefined * number).  The two data files are    *)
(* static assets: every fetch that succeeds gives the same content.        *)
(***************************************************************************)
\* length of the embeddings
Dim == 2

Coords == {-1, 0, 1}

Embeddings == {v \in [1..Dim -> Coords] : \E i \in 1..Dim : v[i] # 0}

\* query embeddings of the length of the stored ones: every embedding is one
\* of these turned by a symmetry of the set Embeddings
QueryEmbeddings == {v \in Embeddings : v[1] = 1}

\* query embeddings of another length
OtherQueryEmbeddings == {<<1>>, <<1, 0, 1>>}

\* the key of the i-th entry of the embeddings file
NodeName(i) == <<"node", i>>

\* the files over a set of vectors
FilesOver(vectors) ==
    UNION {{[i \in 1..n |-> [name |-> NodeName(i), embedding |-> f[i]]] :
                f \in [1..n -> vectors]} : n \in 0..MaxNodes}

\* contents of /data/node_embeddings.json
EmbeddingFiles == FilesOver(Embeddings)

\* Object.keys of an embeddings object
KeysOf(entries) == [i \in 1..Len(entries) |-> entries[i].name]

Reverse(s) == [i \in 1..Len(s) |-> s[Len(s) + 1 - i]]

\* a.reduce((sum, val, i) => sum + val * b[i], 0)
RECURSIVE DotUpTo(_, _, _)
DotUpTo(a, b, n) == IF n = 0 THEN 0 ELSE DotUpTo(a, b, n - 1) + a[n] * b[n]

\* dotProduct / (normA * normB), exact; b[i] is undefined past the end of b
cosineSimilarity(a, b) ==
    IF Len(a) > Len(b)
    THEN [nan |-> TRUE, dot |-> 0, na |-> 0, nb |-> 0]
    ELSE [nan |-> FALSE,
          dot |-> DotUpTo(a, b, Len(a)),
          na |-> DotUpTo(a, a, Len(a)),
          nb |-> DotUpTo(b, b, Len(b))]

\* x * |x|
SignedSquare(x) == IF x < 0 THEN 0 - x * x ELSE x * x

\* s < t as real numbers; false when one of them is NaN
SimLess(s, t) ==
    /\ ~s.nan
    /\ ~t.nan
    /\ SignedSquare(s.dot) * (t.na * t.nb) < SignedSquare(t.dot) * (s.na * s.nb)

\* mutant of CompareFn: ascending
CompareFnAscending(a, b) ==
    IF SimLess(b.similarity, a.similarity) THEN 1
    ELSE IF SimLess(a.similarity, b.similarity) THEN -1
    ELSE 0

\* the sign of (a, b) => b.similarity - a.similarity (a NaN counts as 0)
CompareFn(a, b) ==
    IF SimLess(a.similarity, b.similarity) THEN 1
    ELSE IF SimLess(b.similarity, a.similarity) THEN -1
    ELSE 0

\* e put into the sorted sequence s before the first entry it goes before
RECURSIVE InsertSorted(_, _)
InsertSorted(s, e) ==
    IF s = <<>> THEN <<e>>
    ELSE IF CompareFn(Head(s), e) > 0 THEN <<e>> \o s
    ELSE <<Head(s)>> \o InsertSorted(Tail(s), e)

\* Array.prototype.sort with CompareFn: stable
RECURSIVE SortUpTo(_, _)
SortUpTo(s, n) == IF n = 0 THEN <<>> ELSE InsertSorted(SortUpTo(s, n - 1), s[n])

\* Object.entries(nodeEmbeddings).map(...).sort(...).slice(0, k), for
\* entries whose embeddings have one length (the similarities are then all
\* numbers or all NaN, and the order of the sort is defined)
queryFaissIndexResult(entries, q, k) ==
    LET similarities ==
            [i \in 1..Len(entries) |->
                [name |-> entries[i].name,
                 similarity |-> cosineSimilarity(q, entries[i].embedding)]]
        sorted == SortUpTo(similarities, Len(similarities))
    IN SubSeq(sorted, 1, Min(k, Len(sorted)))

\* the call of ensureInitialized that Chat makes when it mounts
initializeIndex ==
    /\ ensureCalls = 0
    /\ ensureInitialized

\* queryFaissIndex(q, k).  It reads the index and changes nothing of it, so
\* that a second query returns what it returns as the first one: a behaviour
\* holds one query.
queryFaissIndex ==
    /\ ~queried
    /\ \E q \in QueryEmbeddings \cup OtherQueryEmbeddings, k \in 0..MaxK :
         /\ queryEmbedding' = q
         /\ kArg' = k
         /\ similarNodes' = queryFaissIndexResult(nodeEmbeddings, q, k)
    /\ queried' = TRUE
    /\ UNCHANGED <<loadVars, assetVars, enrichVars, kgVars>>

\* a corpus whose vectors have one length, with the node names in the order
\* of the keys of the embeddings file or in the opposite order
IndexInit ==
    /\ ClientInit
    /\ OrchInit
    /\ RagFresh
    /\ NoNode
    /\ embeddingsAsset \in EmbeddingFiles
    /\ namesAsset \in {KeysOf(embeddingsAsset), Reverse(KeysOf(embeddingsAsset))}

IndexNext ==
    \/ initializeIndex /\ UNCHANGED <<clientVars, orchVars>>
    \/ queryFaissIndex /\ UNCHANGED <<clientVars, orchVars>>

IndexSpec == IndexInit /\ [][IndexNext]_vars

\* vectors of a corpus that may be malformed
LoadEmbeddings == {<<1, 0>>, <<0, 1>>, <<1>>}

\* lists of names without repetition, of at most n names
RECURSIVE NameLists(_)
NameLists(n) ==
    IF n = 0 THEN {<<>>}
    ELSE NameLists(n - 1) \cup
         {Append(l, NodeName(i)) : l \in {m \in NameLists(n - 1) : Len(m) = n - 1},
                                    i \in 1..MaxNodes}

DuplicateFree(l) == \A i, j \in 1..Len(l) : l[i] = l[j] => i = j

\* any corpus: vectors of different lengths, node names that are not the keys
LoadInit ==
    /\ ClientInit
    /\ OrchInit
    /\ RagFresh
    /\ NoNode
    /\ embeddingsAsset \in FilesOver(LoadEmbeddings)
    /\ namesAsset \in {l \in NameLists(MaxNodes) : DuplicateFree(l)}

LoadNext ==
    ensureInitialized /\ UNCHANGED <<clientVars, orchVars>>

LoadSpec == LoadInit /\ [][LoadNext]_vars

(***************************************************************************)
(* GraphRAGClient: the enrichment of a node.  A node name is the sequence  *)
(* of its characters; the names are the concatenations of at most MaxParts *)
(* of the parts below (the words inferFormat and fetchRelationships look   *)
(* for, a separator and a letter).                                         *)
(***************************************************************************)
NameParts ==
    {<<"p", "c", "t">>, <<"r", "a", "t", "e">>, <<"d", "a", "t", "e">>,
     <<"y", "e", "a", "r">>, <<"i", "d">>, <<"n", "a", "m", "e">>,
     <<"c", "o", "u", "n", "t">>, <<"n", "u", "m", "b", "e", "r">>,
     <<"_", "i", "d">>, <<"_">>, <<"x">>}

RECURSIVE NamesOfParts(_)
NamesOfParts(n) ==
    IF n = 0 THEN {<<>>}
    ELSE NamesOfParts(n - 1) \cup
         {m \o part : m \in NamesOfParts(n - 1), part \in NameParts}

\* String.prototype.includes
Includes(str, sub) ==
    \E i \in 0..(Len(str) - Len(sub)) : SubSeq(str, i + 1, i + Len(sub)) = sub

\* String.prototype.replace with a string pattern: the first occurrence
ReplaceFirst(str, sub, by) ==
    IF ~Includes(str, sub) THEN str
    ELSE LET i == CHOOSE i \in 0..(Len(str) - Len(sub)) :
                      /\ SubSeq(str, i + 1, i + Len(sub)) = sub
                      /\ \A j \in 0..(i - 1) : SubSeq(str, j + 1, j + Len(sub)) # sub
         IN SubSeq(str, 1, i) \o by \o SubSeq(str, i + Len(sub) + 1, Len(str))

\* nodeName.replace(/_/g, ' ')
ReplaceUnderscores(str) == [i \in 1..Len(str) |-> IF str[i] = "_" THEN " " ELSE str[i]]

\* mutant of inferFormat: the identifier rule before the date rule
inferFormatIdFirst(nodeName) ==
    IF Includes(nodeName, <<"p", "c", "t">>) \/ Includes(nodeName, <<"r", "a", "t", "e">>)
    THEN "percentage"
    ELSE IF Includes(nodeName, <<"i", "d">>)
    THEN "identifier"
    ELSE IF Includes(nodeName, <<"d", "a", "t", "e">>) \/ Includes(nodeName, <<"y", "e", "a", "r">>)
    THEN "date"
    ELSE IF Includes(nodeName, <<"n", "a", "m", "e">>)
    THEN "string"
    ELSE IF Includes(nodeName, <<"c", "o", "u", "n", "t">>)
            \/ Includes(nodeName, <<"n", "u", "m", "b", "e", "r">>)
    THEN "numeric"
    ELSE "string"

inferFormat(nodeName) ==
    IF Includes(nodeName, <<"p", "c", "t">>) \/ Includes(nodeName, <<"r", "a", "t", "e">>)
    THEN "percentage"
    ELSE IF Includes(nodeName, <<"d", "a", "t", "e">>) \/ Includes(nodeName, <<"y", "e", "a", "r">>)
    THEN "date"
    ELSE IF Includes(nodeName, <<"i", "d">>)
    THEN "identifier"
    ELSE IF Includes(nodeName, <<"n", "a", "m", "e">>)
    THEN "string"
    ELSE IF Includes(nodeName, <<"c", "o", "u", "n", "t">>)
            \/ Includes(nodeName, <<"n", "u", "m", "b", "e", "r">>)
    THEN "numeric"
    ELSE "string"

fetchNodeDetails(nodeName) ==
    [name |-> nodeName,
     label |-> ReplaceUnderscores(nodeName) \o <<" ", "f", "i", "e", "l", "d">>,
     format |-> inferFormat(nodeName),
     type |-> "Variable"]

fetchRelationships(nodeName) ==
    <<[type |-> "EXISTS_IN", target |-> <<"d", "i", "r", "e", "c", "t", "o", "r", "y">>],
      [type |-> "PROVIDED_BY", target |-> <<"i", "p", "e", "d", "s">>]>>
    \o (IF Includes(nodeName, <<"_", "i", "d">>)
        THEN <<[type |-> "IDENTIFIES",
                target |-> ReplaceFirst(nodeName, <<"_", "i", "d">>, <<>>)]>>
        ELSE <<>>)

\* x || y on strings, empty being the empty string: the empty string is falsy
OrElse(x, y, empty) == IF x = empty THEN y ELSE x

formatNodeDetails(nodeName, similarity, details, relationships) ==
    [name |-> nodeName,
     label |-> OrElse(details.label, nodeName, <<>>),
     format |-> OrElse(details.format, "string", ""),
     type |-> OrElse(details.type, "Variable", ""),
     similarity |-> similarity,
     relationships |-> relationships]

\* the body of similarNodes.map in queryKnowledgeGraph
enrichNode(node) ==
    formatNodeDetails(node.name, node.similarity,
                      fetchNodeDetails(node.name), fetchRelationships(node.name))

\* the enrichment of the given node
enrich ==
    /\ nodeDetails = <<>>
    /\ nodeDetails' = <<enrichNode(nodeArg)>>
    /\ UNCHANGED <<nodeArg, loadVars, assetVars, kgVars, queried, queryEmbedding, kArg, similarNodes>>

\* the similarities a node is enriched with
NodeSimilarities ==
    {cosineSimilarity(<<1, 0>>, v) : v \in {<<1, 0>>, <<1, 1>>, <<-1, 0>>}}

EnrichInit ==
    /\ ClientInit
    /\ OrchInit
    /\ RagFresh
    /\ NoCorpus
    /\ nodeArg \in [name : NamesOfParts(MaxParts), similarity : NodeSimilarities]

EnrichNext ==
    enrich /\ UNCHANGED <<clientVars, orchVars>>

EnrichSpec == EnrichInit /\ [][EnrichNext]_vars

(***************************************************************************)
(* GraphRAGClient.queryKnowledgeGraph.  The corpus has the names below;    *)
(* the calls of the OpenAI client are the two awaits of the method, and    *)
(* what runs between them runs in one step.                                *)
(***************************************************************************)
CorpusNames ==
    <<<<"a", "d", "m", "i", "t", "_", "r", "a", "t", "e">>,
      <<"p", "a", "r", "e", "n", "t", "_", "e", "d", "_", "i", "d">>,
      <<"y", "e", "a", "r">>,
      <<"i", "n", "s", "t", "_", "n", "a", "m", "e">>,
      <<"c", "o", "u", "n", "t">>,
      <<"z", "i", "p">>,
      <<"p", "c", "t">>,
      <<"u", "n", "i", "t">>>>

\* the stored vectors of the corpus
CorpusEmbeddings == {<<1, 0>>, <<1, 1>>, <<0, 1>>}

\* contents of /data/node_embeddings.json for the corpus
CorpusFiles ==
    UNION {{[i \in 1..n |-> [name |-> CorpusNames[i], embedding |-> f[i]]] :
                f \in [1..n -> CorpusEmbeddings]} : n \in 0..MaxCorpus}

\* the errors of a call of the OpenAI client
KgErrors == {"RateLimitError", "APIConnectionError"}

\* contents of a chat completion
Contents == {"", "answer"}

\* mutant of RelevantNodes: the nodes in the opposite order
RelevantNodesReversed(similar) ==
    [i \in 1..Len(similar) |-> enrichNode(similar[Len(similar) + 1 - i])]

\* Promise.all(similarNodes.map(...))
RelevantNodes(similar) == [i \in 1..Len(similar) |-> enrichNode(similar[i])]

\* queryKnowledgeGraph(query) up to its first await: embeddings.create
queryKnowledgeGraph ==
    /\ kgPc = "idle"
    /\ kgPc' = "embeddings"
    /\ providerLog' = Append(providerLog, "embeddings.create")
    /\ UNCHANGED <<relevantNodes, kgResult, kgError, loadVars, assetVars, enrichVars,
                   queried, queryEmbedding, kArg, similarNodes>>

\* embeddings.create resolves: queryFaissIndex(queryEmbedding), the
\* enrichment of its nodes, and chat.completions.create
embeddingsReturn ==
    /\ kgPc = "embeddings"
    /\ \E q \in QueryEmbeddings :
         /\ queryEmbedding' = q
         /\ kArg' = defaultK
         /\ similarNodes' = queryFaissIndexResult(nodeEmbeddings, q, defaultK)
         /\ relevantNodes' = RelevantNodes(queryFaissIndexResult(nodeEmbeddings, q, defaultK))
    /\ queried' = TRUE
    /\ kgPc' = "completions"
    /\ providerLog' = Append(providerLog, "chat.completions.create")
    /\ UNCHANGED <<kgResult, kgError, loadVars, assetVars, enrichVars>>

\* mutant of embeddingsFail: the embedding is asked for again
embeddingsFailRetried ==
    /\ kgPc = "embeddings"
    /\ Len(providerLog) < 2
    /\ providerLog' = Append(providerLog, "embeddings.create")
    /\ UNCHANGED <<kgPc, kgError, relevantNodes, kgResult, loadVars, assetVars, enrichVars,
                   queried, queryEmbedding, kArg, similarNodes>>

\* embeddings.create rejects: catch (error) { throw error }
embeddingsFail ==
    /\ kgPc = "embeddings"
    /\ kgPc' = "threw"
    /\ kgError' \in KgErrors
    /\ UNCHANGED <<providerLog, relevantNodes, kgResult, loadVars, assetVars, enrichVars,
                   queried, queryEmbedding, kArg, similarNodes>>

\* chat.completions.create resolves: return { relevantNodes, enhancedResponse }
completionsReturn ==
    /\ kgPc = "completions"
    /\ kgPc' = "returned"
    /\ \E answer \in Contents :
         kgResult' = <<[relevantNodes |-> relevantNodes,
                        enhancedResponse |-> OrElse(answer, "No response generated", "")]>>
    /\ UNCHANGED <<providerLog, kgError, relevantNodes, loadVars, assetVars, enrichVars,
                   queried, queryEmbedding, kArg, similarNodes>>

\* chat.completions.create rejects: catch (error) { throw error }
completionsFail ==
    /\ kgPc = "completions"
    /\ kgPc' = "threw"
    /\ kgError' \in KgErrors
    /\ UNCHANGED <<providerLog, relevantNodes, kgResult, loadVars, assetVars, enrichVars,
                   queried, queryEmbedding, kArg, similarNodes>>

\* the corpus, with the node names as the keys of the embeddings file
QueryInit ==
    /\ ClientInit
    /\ OrchInit
    /\ RagFresh
    /\ NoNode
    /\ embeddingsAsset \in CorpusFiles
    /\ namesAsset = KeysOf(embeddingsAsset)

QueryNext ==
    \/ initializeIndex /\ UNCHANGED <<clientVars, orchVars>>
    \/ queryKnowledgeGraph /\ UNCHANGED <<clientVars, orchVars>>
    \/ embeddingsReturn /\ UNCHANGED <<clientVars, orchVars>>
    \/ embeddingsFail /\ UNCHANGED <<clientVars, orchVars>>
    \/ completionsReturn /\ UNCHANGED <<clientVars, orchVars>>
    \/ completionsFail /\ UNCHANGED <<clientVars, orchVars>>

QuerySpec == QueryInit /\ [][QueryNext]_vars

(***************************************************************************)
(* Properties of AssistantClient.streamMessage (sendTurn).                 *)
(***************************************************************************)
Ended == pc = "done"
Succeeded == pc = "done" /\ lastOk

\* C1: the step in which the poll loop observes the aborted signal ends the
\* call with the cancellation error, starts no backoff wait, does not
\* increment the retry counter and starts no new attempt.
C1_CancellationWinsOverRetry ==
    [][(~sawAbort /\ sawAbort') =>
          /\ pc' = "done"
          /\ result' = "Request cancelled"
          /\ waits' = waits
          /\ retryCount' <= retryCount
          /\ attempts' = attempts]_vars

\* C2: a call started with retry counter 0 whose first two attempts fail with
\* a non-cancellation error and whose third attempt succeeds made exactly 3
\* attempts, waited 2000 then 4000, delivered the fragments of the third
\* attempt and ended normally.
C2_TwoFailuresThenSuccess ==
    (Succeeded /\ rc0 = 0 /\ fails = 2 /\ ~sawCancelErr) =>
        /\ attempts = 3
        /\ waits = <<2000, 4000>>
        /\ Flatten(fragments) = text \o <<" ">>
        /\ result = "ok"

\* C3: the retry counter is 0 after every call whose final attempt succeeded.
C3_CounterZeroAfterSuccess ==
    Succeeded => retryCount = 0

\* C4: a call started with retry counter 0 in which 4 attempts fail with
\* non-cancellation errors raises the error of the last attempt after exactly
\* 3 retries (4 attempts), retries no further, and leaves the counter at 0.
C4_Exhaustion ==
    /\ (rc0 = 0 /\ ~sawCancelErr) => (fails <= 4 /\ attempts <= 4)
    /\ (rc0 = 0 /\ ~sawCancelErr /\ fails = 4) =>
          /\ pc = "done"
          /\ result = lastErr
          /\ attempts = 4
          /\ waits = <<2000, 4000, 8000>>
          /\ retryCount = 0

C4_Witness ==
    /\ pc = "done" /\ rc0 = 0 /\ ~sawCancelErr /\ fails = 4
    /\ result = "Run requires action"

\* C5: in every call, whatever calls came before, the wait before the n-th
\* retry (n = 0, 1, 2) is 2000 * 2^n, and the call gives up only after 3
\* retries.
C5_PerCallBackoff ==
    /\ \A n \in 1..Len(waits) : waits[n] = 2000 * Pow2(n - 1)
    /\ (Ended /\ fails > 0 /\ result = lastErr /\ ~sawCancelErr) => Len(waits) = 3

\* C6: when abort() comes after the run was created and before a terminal
\* status was observed, no run-status fetch is issued after the poll loop
\* observed the signal and no message fetch is issued.
C6_NoFetchAfterCancel ==
    cancelInPoll => (~statusAfterSaw /\ ~listAfterCancel)

\* C8 (as claimed): every call ends, after at most 4 attempts, and each poll
\* loop has ended by the 30-second deadline.
C8_EndsByDeadline ==
    /\ (pc \notin {"idle", "done"}) ~> (pc = "done")
    /\ [](attempts <= 4)
    /\ [](~pollLate)

\* C8 (amended): every call ends, after at most 4 attempts, and a poll loop
\* issues no run-status fetch at an iteration that begins more than 30
\* seconds after the run was created.
C8_Terminates ==
    /\ (pc \notin {"idle", "done"}) ~> (pc = "done")
    /\ [](attempts <= 4)
    /\ [](pc = "retrieve" => elapsed <= 30000)

C8_Witness ==
    pc = "done" /\ attempts = 4 /\ lastErr = "Request timed out" /\ pollLate

\* messages.list was issued by the attempt in progress
ListIssued == pc = "list" \/ lastList # "none"

\* C11: an attempt leaves its poll loop towards the message fetch only after
\* the status completed was observed, on the run the same attempt created;
\* the statuses failed, cancelled, expired and requires_action end the attempt
\* in the catch block with the reason of that status, and no message fetch.
C11_PollOutcomes ==
    /\ (ListIssued \/ pc \in {"yielded", "pace"} \/ Succeeded) =>
          /\ lastStatus = "completed"
          /\ run # 0
          /\ run = attempts
          /\ polled = run
    /\ lastStatus \in {"failed", "cancelled", "expired", "requires_action"} =>
          /\ pc \in {"backoff", "done"}
          /\ fails >= 1
          /\ ~ListIssued
          /\ lastErr = CASE lastStatus = "failed" -> "Run failed"
                          [] lastStatus = "cancelled" -> "Run was cancelled"
                          [] lastStatus = "expired" -> "Run expired"
                          [] lastStatus = "requires_action" -> "Run requires action"
    /\ lastStatus \notin {"none", "completed", "failed", "cancelled", "expired",
                          "requires_action"} => ~ListIssued

C11_Witness ==
    /\ pc = "backoff" /\ attempts = 2 /\ polled = 2
    /\ lastStatus = "expired" /\ lastErr = "Run expired"

\* C12: a call made while the client has no thread ends at once with 'Thread
\* not initialized': no provider call is issued, no backoff wait is started,
\* and the retry counter and the thread are as before.
C12_NoThreadFailsAtOnce ==
    [][(pc \in {"idle", "done"} /\ thread = 0 /\ createLog' = createLog) =>
          /\ pc' = "done"
          /\ result' = "Thread not initialized"
          /\ callLog' = {}
          /\ waits' = <<>>
          /\ fails' = 0
          /\ retryCount' = retryCount
          /\ thread' = 0]_vars

C12_Witness ==
    /\ pc = "done" /\ result = "Thread not initialized"
    /\ thread = 0 /\ createLog.outcome = "failed"
    /\ callLog = {} /\ attempts = 1

\* C13: every provider call of a call is issued on the thread the client
\* held when the call started, which createThread stored; the thread changes
\* only in a createThread that succeeds, never during a call, and a
\* createThread that fails leaves it as it was.
C13_ThreadKept ==
    /\ [](\A c \in callLog : c[2] = thread0 /\ c[2] # 0)
    /\ [](pc \notin {"idle", "done"} => thread = thread0)
    /\ [](createLog.outcome = "failed" => thread = createLog.before)
    /\ [][thread' # thread =>
            (pc \in {"idle", "done"} /\ createLog'.outcome = "created")]_vars

C13_Witness ==
    /\ pc = "done" /\ attempts = 2 /\ thread0 = 2
    /\ callLog = {<<c, 2>> : c \in {"messages.create", "runs.create", "runs.retrieve",
                                    "messages.list"}}
    /\ createLog = [outcome |-> "failed", before |-> 2]

\* C14: when the run completed and messages.list gives no message, or a
\* message that is not the assistant's, the attempt ends in the catch block
\* with 'No assistant response found' and the call has yielded no fragment.
C14_NoAssistantMessage ==
    lastList \in {"absent", "notAssistant"} =>
        /\ lastStatus = "completed"
        /\ pc \in {"backoff", "done"}
        /\ lastErr = "No assistant response found"
        /\ fragments = <<>>
        /\ pc = "done" => result = "No assistant response found"

C14_Witness ==
    /\ lastList = "notAssistant" /\ lastStatus = "completed"
    /\ pc = "done" /\ result = "No assistant response found"

\* C15: a poll iteration that begins more than 30 seconds after the run was
\* created issues no run-status fetch and ends the attempt with 'Request
\* timed out', or with 'Request cancelled' when the signal is aborted too; an
\* iteration that begins by the deadline with the signal clear issues the
\* fetch.
C15_DeadlineAtIteration ==
    /\ [][(pc = "sleep" /\ pc' # "sleep" /\ elapsed + 1000 > 30000) =>
            /\ pc' # "retrieve"
            /\ fails' = fails + 1
            /\ lastErr' = IF aborted THEN "Request cancelled"
                          ELSE "Request timed out"]_vars
    /\ [][(pc = "sleep" /\ pc' # "sleep" /\ elapsed + 1000 <= 30000 /\ ~aborted) =>
            pc' = "retrieve"]_vars

C15_Witness ==
    /\ pc = "backoff" /\ attempts = 1 /\ aborted /\ sawAbort /\ pollLate
    /\ lastStatus = "in_progress" /\ lastErr = "Request cancelled"

\* C30: a poll loop goes to its 1-second sleep, and so to another
\* run-status fetch, only on the statuses queued and in_progress; every other
\* status ends the polling of the run.
C30_OnlyTransientRepolled ==
    [][(pc = "retrieve" /\ pc' = "sleep") =>
          lastStatus' \in {"queued", "in_progress"}]_vars

\* the failures of an attempt that are not a cancellation: a run seen as
\* failed, cancelled, expired or requires_action, the timeout of the poll
\* loop, a last message that is missing, not the assistant's or not a text,
\* and a provider call that fails
FailureKinds ==
    {"Run failed", "Run was cancelled", "Run expired", "Run requires action",
     "Request timed out", "No assistant response found",
     "Unexpected message content type"} \cup ProviderErrors

\* C31: an attempt that fails in any of these ways while retryCount is below
\* 3 starts the backoff wait of 2000 * 2^retryCount ms, whatever the failure,
\* and the end of that wait counts the retry and starts the next attempt.
C31_UniformRetry ==
    [][/\ (fails' = fails + 1 /\ lastErr' \in FailureKinds /\ retryCount < 3) =>
             /\ pc' = "backoff"
             /\ waits' = Append(waits, 2000 * Pow2(retryCount))
             /\ retryCount' = retryCount
             /\ result' = "none"
       /\ (pc = "backoff" /\ pc' # "backoff") =>
             /\ pc' = "append"
             /\ attempts' = attempts + 1
             /\ retryCount' = retryCount + 1]_vars

\* a run that requires action has started the third backoff wait of a call
C31_Witness ==
    /\ pc = "backoff"
    /\ lastErr = "Run requires action"
    /\ waits = <<2000, 4000, 8000>>
    /\ rc0 = 0

\* C32: every attempt of a call starts from the top: it issues
\* messages.create with the text of the call, so that a call in its n-th
\* attempt has issued n of them, all with that text; the run of the attempt
\* is a new one, and the poll loop of the attempt fetches the status of that
\* run only.
C32_AttemptFromTheTop ==
    [][/\ thread0' # 0 =>
             /\ Len(appendLog') = attempts'
             /\ \A i \in 1..Len(appendLog') : appendLog'[i] = appendLog'[1]
       /\ (pc = "backoff" /\ pc' # "backoff") =>
             /\ pc' = "append"
             /\ attempts' = attempts + 1
             /\ run' = 0
             /\ polled' = 0
             /\ appendLog' = Append(appendLog, content)
       /\ run' # 0 => run' = RunId(attempts')
       /\ polled' # 0 => polled' = run']_vars

\* the third attempt of a call that sends q2 polls its own run
C32_Witness ==
    /\ pc = "retrieve"
    /\ attempts = 3
    /\ appendLog = <<"q2", "q2", "q2">>
    /\ polled = RunId(3)

\* C35: a call that has ended with an error has yielded no fragment.
C35_NoFragmentBeforeError ==
    (pc = "done" /\ result # "ok") => fragments = <<>>

(***************************************************************************)
(* Properties of the chunk loop.                                           *)
(***************************************************************************)
Whitespace == {" ", "\n"}

\* number of space characters of a text
RECURSIVE Spaces(_)
Spaces(t) ==
    IF t = <<>> THEN 0 ELSE (IF Head(t) = " " THEN 1 ELSE 0) + Spaces(Tail(t))

\* number of maximal runs of non-whitespace characters of a text
RECURSIVE WordsFrom(_, _, _)
WordsFrom(t, i, inWord) ==
    IF i > Len(t) THEN 0
    ELSE IF t[i] \in Whitespace THEN WordsFrom(t, i + 1, FALSE)
    ELSE (IF inWord THEN 0 ELSE 1) + WordsFrom(t, i + 1, TRUE)

WordCount(t) == WordsFrom(t, 1, FALSE)

\* the pieces of a fragment: what stands between the space characters of the
\* fragment without its last character
Pieces(f) == Spaces(SubSeq(f, 1, Len(f) - 1)) + 1

EndsWithOneSpace(f) ==
    /\ Len(f) >= 1
    /\ f[Len(f)] = " "
    /\ Len(f) >= 2 => f[Len(f) - 1] \notin Whitespace

\* C9 (as claimed): the concatenation of the fragments is the original text.
C9_ExactReconstruction ==
    Succeeded => Flatten(fragments) = text

\* C9 (amended): the concatenation of the fragments is the original text
\* followed by one space character.
C9_ReconstructionPlusSpace ==
    Succeeded => Flatten(fragments) = text \o <<" ">>

C9_Witness ==
    /\ Succeeded
    /\ Len(fragments) = 2
    /\ \E i \in 1..Len(text) : text[i] = "\n"

\* C10 (as claimed): the words are the maximal runs of non-whitespace
\* characters; every fragment but the last holds exactly 10 of them, the last
\* between 1 and 10, and each fragment ends with a single space.
C10_WhitespaceWords ==
    Succeeded =>
        \A k \in 1..Len(fragments) :
            /\ EndsWithOneSpace(fragments[k])
            /\ IF k < Len(fragments)
               THEN WordCount(fragments[k]) = 10
               ELSE WordCount(fragments[k]) \in 1..10

\* C10 (amended): the text is cut at every space character and at nothing
\* else; every fragment but the last holds exactly 10 of the pieces, the last
\* between 1 and 10, joined by single spaces and followed by one space, and
\* the fragments cover the pieces of the text in order.
C10_SpacePieces ==
    Succeeded =>
        /\ \A k \in 1..Len(fragments) :
              /\ fragments[k] # <<>>
              /\ fragments[k][Len(fragments[k])] = " "
              /\ IF k < Len(fragments)
                 THEN Pieces(fragments[k]) = 10
                 ELSE Pieces(fragments[k]) \in 1..10
        /\ Len(fragments) >= 1
        /\ 10 * (Len(fragments) - 1) + Pieces(fragments[Len(fragments)]) = Spaces(text) + 1
        /\ Flatten(fragments) = text \o <<" ">>

C10_Witness ==
    /\ Succeeded
    /\ Len(fragments) = 2
    /\ WordCount(fragments[1]) = 11
    /\ Pieces(fragments[1]) = 10

\* C39: for every text, the empty one too, an attempt that succeeds yields
\* ceil(W / 10) fragments, W being the number of space characters of the
\* text plus one; that is at least one fragment, and the fragments put
\* together are the text followed by one space character.
C39_FragmentCount ==
    Succeeded =>
        /\ Len(fragments) = (Spaces(text) + 1 + 9) \div 10
        /\ Len(fragments) >= 1
        /\ Flatten(fragments) = text \o <<" ">>

\* the empty text has been yielded as one fragment of one space
C39_Witness ==
    /\ Succeeded
    /\ text = <<>>
    /\ fragments = <<<<" ">>>>

(***************************************************************************)
(* Properties of Chat.                                                     *)
(***************************************************************************)
\* the turn whose handleSubmit made the message with this id
TurnOf(id) == (id + 1) \div 2

BotMessages == {i \in 1..Len(messages) : messages[i].isBot}

\* the bot message of turn k is in the list
HasBotMessage(k) == \E i \in BotMessages : messages[i].id = 2 * k

\* C16: a bot message carries the knowledge graph, and is delivered, only
\* when the stream of its turn has ended normally and the retrieval has
\* given its result; the two come together, and while the stream is in
\* flight the message stays as it is whatever the retrieval has done.
C16_AnnotationAfterStream ==
    \A i \in BotMessages :
        (messages[i].kg \/ messages[i].status = "delivered") =>
            /\ turns[TurnOf(messages[i].id)].ended = "ok"
            /\ turns[TurnOf(messages[i].id)].kgp = "ok"
            /\ turns[TurnOf(messages[i].id)].st = "done"
            /\ messages[i].kg
            /\ messages[i].status = "delivered"

C16_Witness ==
    /\ \E i \in BotMessages :
          /\ messages[i].kg /\ messages[i].status = "delivered"
          /\ messages[i].content = 2
          /\ turns[TurnOf(messages[i].id)].ended = "ok"
    /\ \E k \in 1..MaxTurns :
          turns[k].st = "stream" /\ turns[k].kgp = "ok" /\ turns[k].sp = "pace"

\* the stream of turn k has failed
StreamFailed(k) == turns[k].ended \in {"Request cancelled", "Error"}

\* C17 (as claimed): when the stream of a turn has failed, whatever the
\* error, the bot message of the turn is in the list with status failed
\* and without knowledge graph.
C17_FailedOnAnyStreamError ==
    \A k \in 1..MaxTurns :
        StreamFailed(k) =>
            \E i \in BotMessages :
                /\ messages[i].id = 2 * k
                /\ messages[i].status = "failed"
                /\ ~messages[i].kg

\* C17 (amended): when the stream of a turn has failed, the knowledge graph
\* is not attached; the bot message of the turn has status failed and the
\* content 'Failed to generate response', unless the message of the error
\* is 'Request cancelled': then the bot message is taken out of the list.
C17_FailedOrRemoved ==
    \A k \in 1..MaxTurns :
        StreamFailed(k) =>
            /\ turns[k].st = "done"
            /\ \A i \in BotMessages :
                  messages[i].id = 2 * k =>
                      /\ messages[i].status = "failed"
                      /\ messages[i].content = "Failed to generate response"
                      /\ ~messages[i].kg
            /\ HasBotMessage(k) <=> turns[k].ended # "Request cancelled"

C17_Witness ==
    /\ turns[1].ended = "Request cancelled" /\ turns[1].kgp = "ok"
    /\ ~HasBotMessage(1)
    /\ turns[2].ended = "Error" /\ turns[2].kgp = "ok"
    /\ HasBotMessage(2)

\* the stream of turn k has ended normally and its retrieval has failed
RetrievalFailed(k) ==
    turns[k].st = "done" /\ turns[k].ended = "ok" /\ turns[k].kgp = "fail"

\* C33: when the stream of a turn has ended normally and its retrieval has
\* failed, the bot message of the turn has status failed, the content
\* 'Failed to generate response' in place of what was streamed, and no
\* knowledge graph.
C33_RetrievalFailureFailsTurn ==
    \A k \in 1..MaxTurns :
        RetrievalFailed(k) =>
            /\ HasBotMessage(k)
            /\ \A i \in BotMessages :
                  messages[i].id = 2 * k =>
                      /\ messages[i].status = "failed"
                      /\ ~messages[i].kg
                      /\ messages[i].content = "Failed to generate response"

\* the retrieval of the second turn has failed behind a complete stream,
\* that of the first turn has not
C33_Witness ==
    /\ RetrievalFailed(2)
    /\ turns[1].ended = "ok" /\ turns[1].kgp = "ok"
    /\ Len(messages) = 4
    /\ messages[2].status = "delivered"
    /\ messages[4].status = "failed"

\* C34: cancelRequest leaves the retrieval of every turn as it is, and when
\* the retrieval of a turn whose stream ended with 'Request cancelled'
\* settles, with its result or with a failure, no message, no turn and nothing
\* else of the component changes.
C34_CancelLeavesRetrieval ==
    [][/\ abortedSignals' # abortedSignals =>
             \A k \in 1..MaxTurns : turns'[k] = turns[k]
       /\ \A k \in 1..MaxTurns :
             (turns[k].ended = "Request cancelled" /\ turns'[k].kgp # turns[k].kgp) =>
                 /\ turns[k].kgp = "pending"
                 /\ turns'[k].kgp \in {"ok", "fail"}
                 /\ turns' = [turns EXCEPT ![k].kgp = turns'[k].kgp]
                 /\ UNCHANGED <<messages, error, isLoading, abortControllerRef, input>>]_vars

\* the stream of a turn has ended with 'Request cancelled' and its retrieval
\* is still running
C34_Witness ==
    /\ turns[1].ended = "Request cancelled"
    /\ turns[1].st = "done"
    /\ turns[1].kgp = "pending"
    /\ 1 \in abortedSignals

\* C36: the retry counter of the client of the component is always between
\* 0 and 3, and a backoff wait that a stream starts is of at most 8000 ms
\* (2000 * 2^retryCount as the catch block finds it), with streams that
\* overlap on the client too.
C36_CounterWithinBounds ==
    [][/\ retryCount' \in 0..3
       /\ \A k \in 1..MaxTurns :
             (turns[k].sp # "backoff" /\ turns'[k].sp = "backoff") =>
                 2000 * Pow2(retryCount) <= 8000]_vars

\* handleSubmit of turn k has not reached its finally block
Outstanding(k) == turns[k].st \in {"stream", "kg"}

\* C37: the step in which a turn ends leaves abortControllerRef and
\* isLoading as they are when a later turn is outstanding, and the
\* AbortController that abortControllerRef holds is that of the latest
\* outstanding turn.
C37_HandleOfTurnInFlight ==
    [][\A k \in 1..MaxTurns :
          (Outstanding(k) /\ turns'[k].st = turns[k].st
             /\ \A l \in (k + 1)..MaxTurns : turns[l].st = "free") =>
              /\ abortControllerRef = k
              /\ (\E j \in 1..(k - 1) : Outstanding(j) /\ turns'[j].st = "done") =>
                    /\ abortControllerRef' = abortControllerRef
                    /\ isLoading' = isLoading]_vars

\* C38: when handleSubmit calls queryKnowledgeGraph, the index of the
\* GraphRAGClient has been loaded (ensureInitialized has returned, with
\* initialized set).
C38_QueryAfterLoad ==
    [][\A k \in 1..MaxTurns :
          (turns[k].st = "free" /\ turns'[k].st = "stream") =>
              /\ initialized
              /\ initPhase = "ready"]_vars

\* a message whose status is final
Final(m) == m.status \in {"delivered", "failed"}

\* C18: in every step, a message whose status is delivered or failed is
\* afterwards in the list exactly as it was, or not in the list.
C18_FinalTurnsImmutable ==
    [][\A i \in 1..Len(messages) :
          Final(messages[i]) =>
              \A j \in 1..Len(messages') :
                  messages'[j].id = messages[i].id => messages'[j] = messages[i]]_vars

C18_Witness ==
    /\ regenerated # <<>>
    /\ Len(messages) = 3
    /\ \A i \in 1..Len(messages) : Final(messages[i])
    /\ messages[3].isBot /\ messages[3].kg

\* C19: a regenerateResponse on a failed message cuts the list before that
\* message and starts a new turn (a streamMessage call and a retrieval
\* query) with the text of the user message before it, and that text is what
\* the new user message holds.
C19_RegenerateResubmits ==
    [][Len(regenerated') > Len(regenerated) =>
          LET r == regenerated'[Len(regenerated')]
              i == CHOOSE n \in 1..Len(messages) : messages[n].id = r.id
          IN /\ messages[i].status = "failed"
             /\ r.text = messages[i - 1].content
             /\ \E k \in 1..MaxTurns :
                   /\ turns[k].st = "free"
                   /\ turns'[k].st = "stream"
                   /\ turns'[k].kgp = "pending"
                   /\ turns'[k].q = r.text
                   /\ messages' = SubSeq(messages, 1, i - 1) \o
                         <<[id |-> 2 * k - 1, isBot |-> FALSE, content |-> r.text,
                            status |-> "delivered", kg |-> FALSE],
                           [id |-> 2 * k, isBot |-> TRUE, content |-> 0,
                            status |-> "typing", kg |-> FALSE]>>]_vars

(***************************************************************************)
(* Properties of the similarity index.                                     *)
(***************************************************************************)
\* s >= t as real numbers: dot_s / sqrt(nb_s) >= dot_t / sqrt(nb_t), for
\* similarities to one query
AtLeast(s, t) ==
    CASE s.dot >= 0 /\ t.dot >= 0 -> s.dot * s.dot * t.nb >= t.dot * t.dot * s.nb
      [] s.dot >= 0 /\ t.dot < 0 -> TRUE
      [] s.dot < 0 /\ t.dot >= 0 -> FALSE
      [] OTHER -> s.dot * s.dot * t.nb <= t.dot * t.dot * s.nb

\* the shape of a result res of queryFaissIndex(q, k) on the entries
TopKShape(res, k, entries) ==
    /\ Len(res) = IF k < Len(entries) THEN k ELSE Len(entries)
    /\ \A i \in 1..Len(res) :
          \E n \in 1..Len(entries) : res[i].name = entries[n].name
    /\ \A i, j \in 1..Len(res) :
          i < j =>
              /\ res[i].name # res[j].name
              /\ (~res[i].similarity.nan /\ ~res[j].similarity.nan) =>
                    AtLeast(res[i].similarity, res[j].similarity)

\* the step is a queryFaissIndex that returns
QueryStep == queried' /\ ~queried /\ UNCHANGED <<loadVars, assetVars>>

\* the query embedding has the length of every stored embedding
SameLength(q, entries) == \A n \in 1..Len(entries) : Len(entries[n].embedding) = Len(q)

\* C20: queryFaissIndex(q, k) on N stored vectors returns min(k, N)
\* entries, each under the name of a stored vector and no name twice, with
\* similarities that do not increase along the result (and are numbers when
\* the query has the length of the stored vectors).
C20_TopKShape ==
    [][QueryStep =>
          /\ TopKShape(similarNodes', kArg', nodeEmbeddings)
          /\ SameLength(queryEmbedding', nodeEmbeddings) =>
                \A i \in 1..Len(similarNodes') : ~similarNodes'[i].similarity.nan]_vars

C20_Witness ==
    /\ queried /\ Len(nodeEmbeddings) = 3 /\ kArg = 2 /\ Len(similarNodes) = 2
    /\ similarNodes[1].name = <<"node", 3>>
    /\ similarNodes[2].name = <<"node", 1>>
    /\ ~similarNodes[1].similarity.nan
    /\ ~AtLeast(similarNodes[2].similarity, similarNodes[1].similarity)

\* the place of a name in a list of names, 0 when it is not in it
PositionIn(l, name) ==
    IF \E i \in 1..Len(l) : l[i] = name
    THEN CHOOSE i \in 1..Len(l) : l[i] = name
    ELSE 0

SameSimilarity(s, t) == ~s.nan /\ ~t.nan /\ ~SimLess(s, t) /\ ~SimLess(t, s)

\* C21: in a result of queryFaissIndex on a loaded index, two entries of the
\* same similarity stand in the order of their names in the node-names file,
\* whatever the order of the keys of the embeddings file.
C21_TiesInNamesOrder ==
    [][(QueryStep /\ initialized /\ SameLength(queryEmbedding', nodeEmbeddings)) =>
          \A i, j \in 1..Len(similarNodes') :
              (i < j /\ SameSimilarity(similarNodes'[i].similarity,
                                       similarNodes'[j].similarity)) =>
                  PositionIn(nodeNames, similarNodes'[i].name)
                      < PositionIn(nodeNames, similarNodes'[j].name)]_vars

Range(l) == {l[i] : i \in 1..Len(l)}

\* C22: an initialized index holds one vector under every name of the
\* node-names file and no other, and its vectors have one length (a load of
\* files that are not so fails and leaves the index uninitialized).
C22_InitializedIsConsistent ==
    initialized =>
        /\ Range(nodeNames) = Range(KeysOf(nodeEmbeddings))
        /\ Len(nodeNames) = Len(nodeEmbeddings)
        /\ \A i, j \in 1..Len(nodeEmbeddings) :
              Len(nodeEmbeddings[i].embedding) = Len(nodeEmbeddings[j].embedding)

\* C23: a call of ensureInitialized on an initialized index fetches neither
\* file and leaves the stored vectors, the names and the flag as they are.
C23_LoadIdempotent ==
    [][(initialized /\ ensureCalls' = ensureCalls + 1) =>
          /\ lastFetched' = {}
          /\ UNCHANGED <<nodeEmbeddings, nodeNames, initialized>>]_vars

\* a second call of ensureInitialized has returned on a corpus loaded by the
\* first one
C23_Witness ==
    /\ initialized
    /\ ensureCalls = 2
    /\ lastFetched = {}
    /\ Len(nodeEmbeddings) > 0
    /\ nodeNames = namesAsset

\* C24: queryFaissIndex with a query embedding whose length is not the
\* length of the stored embeddings fails: it returns no result.
C24_MismatchedQueryFails ==
    [][(UNCHANGED loadVars /\ ~SameLength(queryEmbedding', nodeEmbeddings)) =>
          ~queried']_vars

(***************************************************************************)
(* Properties of the enrichment.                                           *)
(***************************************************************************)
EndsWith(str, sub) ==
    /\ Len(sub) <= Len(str)
    /\ SubSeq(str, Len(str) - Len(sub) + 1, Len(str)) = sub

\* C25: an enriched node has the edges EXISTS_IN to directory and
\* PROVIDED_BY to ipeds, and after them the edge IDENTIFIES exactly when its
\* name ends with _id, to the name without these last three characters.
C25_IdentifiesOnSuffix ==
    \A i \in 1..Len(nodeDetails) :
        LET name == nodeDetails[i].name
            rels == nodeDetails[i].relationships
        IN /\ Len(rels) >= 2
           /\ rels[1] = [type |-> "EXISTS_IN",
                         target |-> <<"d", "i", "r", "e", "c", "t", "o", "r", "y">>]
           /\ rels[2] = [type |-> "PROVIDED_BY", target |-> <<"i", "p", "e", "d", "s">>]
           /\ IF EndsWith(name, <<"_", "i", "d">>)
              THEN /\ Len(rels) = 3
                   /\ rels[3] = [type |-> "IDENTIFIES",
                                 target |-> SubSeq(name, 1, Len(name) - 3)]
              ELSE Len(rels) = 2

\* the rules of the format, in their order: the words and the format
FormatRules ==
    <<[words |-> {<<"p", "c", "t">>, <<"r", "a", "t", "e">>}, format |-> "percentage"],
      [words |-> {<<"d", "a", "t", "e">>, <<"y", "e", "a", "r">>}, format |-> "date"],
      [words |-> {<<"i", "d">>}, format |-> "identifier"],
      [words |-> {<<"n", "a", "m", "e">>}, format |-> "string"],
      [words |-> {<<"c", "o", "u", "n", "t">>, <<"n", "u", "m", "b", "e", "r">>},
       format |-> "numeric"]>>

RuleMatches(r, name) == \E w \in FormatRules[r].words : Includes(name, w)

\* C26: the format of an enriched node is the format of the first rule, in
\* the order percentage, date, identifier, string, numeric, of which a word
\* is in the name, and string when no rule has one; it is a function of the
\* name alone.
C26_FirstRuleDecides ==
    \A i \in 1..Len(nodeDetails) :
        LET name == nodeDetails[i].name
            matching == {r \in 1..Len(FormatRules) : RuleMatches(r, name)}
        IN /\ name = nodeArg.name
           /\ \A r \in matching :
                 (\A q \in matching : r <= q) => nodeDetails[i].format = FormatRules[r].format
           /\ matching = {} => nodeDetails[i].format = "string"

\* a node whose name has words of three rules has been enriched
C26_Witness ==
    /\ Len(nodeDetails) = 1
    /\ RuleMatches(2, nodeDetails[1].name)
    /\ RuleMatches(3, nodeDetails[1].name)
    /\ RuleMatches(5, nodeDetails[1].name)
    /\ ~RuleMatches(1, nodeDetails[1].name)
    /\ nodeDetails[1].format = "date"

(***************************************************************************)
(* Properties of queryKnowledgeGraph.                                      *)
(***************************************************************************)
\* the similarity of the stored vector of a name to the query embedding q
StoredSimilarity(entries, name, q) ==
    cosineSimilarity(q, entries[CHOOSE n \in 1..Len(entries) : entries[n].name = name].embedding)

\* the nodes are the nodes of the search top, in its order, each enriched
\* and with its own similarity, the first one a most similar stored node
RankedEnriched(nodes, top, entries, q) ==
    /\ Len(nodes) = IF Len(entries) < 5 THEN Len(entries) ELSE 5
    /\ Len(nodes) = Len(top)
    /\ \A i \in 1..Len(nodes) :
          /\ nodes[i].name = top[i].name
          /\ nodes[i].similarity = StoredSimilarity(entries, nodes[i].name, q)
          /\ nodes[i].format = inferFormat(nodes[i].name)
          /\ nodes[i].relationships = fetchRelationships(nodes[i].name)
          /\ nodes[i].type = "Variable"
          /\ \A j \in 1..Len(nodes) : i < j => AtLeast(nodes[i].similarity, nodes[j].similarity)
    /\ Len(nodes) > 0 =>
          \A n \in 1..Len(entries) :
              AtLeast(nodes[1].similarity, cosineSimilarity(q, entries[n].embedding))

\* C27: queryKnowledgeGraph searches with k = 5 and returns the nodes of
\* that search in its order, each enriched and with its own similarity:
\* min(5, N) nodes, the first one a stored node most similar to the query.
C27_RankedEnrichedNodes ==
    [][/\ (kgPc = "embeddings" /\ kgPc' = "completions") =>
             /\ kArg' = 5
             /\ TopKShape(similarNodes', 5, nodeEmbeddings)
             /\ RankedEnriched(relevantNodes', similarNodes', nodeEmbeddings, queryEmbedding')
       /\ kgPc' = "returned" =>
             /\ Len(kgResult') = 1
             /\ kgResult'[1].relevantNodes = relevantNodes]_vars

\* five of the six nodes of the corpus have been returned, admit_rate as the
\* first one and more similar than the second one
C27_Witness ==
    /\ kgPc = "returned"
    /\ Len(nodeEmbeddings) = 6
    /\ Len(kgResult[1].relevantNodes) = 5
    /\ kgResult[1].relevantNodes[1].name = CorpusNames[1]
    /\ kgResult[1].relevantNodes[1].format = "percentage"
    /\ ~AtLeast(kgResult[1].relevantNodes[2].similarity,
                kgResult[1].relevantNodes[1].similarity)
    /\ kgResult[1].relevantNodes[5].name = CorpusNames[2]

\* the call of the OpenAI client that failed, when queryKnowledgeGraph threw
FailedCall == IF kgPc = "threw" THEN providerLog[Len(providerLog)] ELSE "none"

\* C28: when chat.completions.create fails, the caller of
\* queryKnowledgeGraph still obtains the nodes found and enriched before it.
C28_NodesSurviveSynthesisFailure ==
    FailedCall = "chat.completions.create" =>
        /\ Len(kgResult) = 1
        /\ kgResult[1].relevantNodes = relevantNodes

\* C29: when embeddings.create fails, queryKnowledgeGraph throws the error
\* of the provider, having made that one call of the OpenAI client and no
\* similarity search.
C29_EmbeddingFailureIsFinal ==
    /\ kgPc = "embeddings" => providerLog = <<"embeddings.create">> /\ ~queried
    /\ FailedCall = "embeddings.create" =>
          /\ providerLog = <<"embeddings.create">>
          /\ kgError \in KgErrors
          /\ ~queried
          /\ similarNodes = <<>>
          /\ relevantNodes = <<>>
          /\ kgResult = <<>>

\* embeddings.create has failed on a loaded corpus
C29_Witness ==
    /\ FailedCall = "embeddings.create"
    /\ kgError = "RateLimitError"
    /\ initialized
    /\ Len(nodeEmbeddings) = 6
====
